---- MODULE Spec2Model ----
(***************************************************************************)
(* Model of the CAMB engine of cosmoprimo (src/cosmoprimo/camb.py): the    *)
(* task resolver _build_task_dependency, the ready-flag state machine of   *)
(* CambEngine.compute, sigma8 rescaling, and the Section constructors that *)
(* capture the engine's solver handles.                                    *)
(*                                                                         *)
(* A solver object (what camb.get_background, camb.get_transfer_functions  *)
(* or camb.CAMBdata() returns) is an entry of objs, which lists the        *)
(* objects each routine has returned; a handle names the routine and the   *)
(* position in its list, NoHandle standing for an attribute not assigned.  *)
(***************************************************************************)
EXTENDS Integers, Sequences, FiniteSets, TLC

\* ------------------------------------------------------------------ bounds
\* longest task list handed to _build_task_dependency in ResolverSpec
MaxLen == 3
\* most stage names in one compute request
MaxTasks == 2
\* the cosmology's ellmax_cl in the runs checked
ellmax_cl == 3
\* largest neutrino mass, in units of the smallest non-zero one
MaxMass == 2
\* most massive-neutrino species of a cosmology
MaxSpecies == 3
\* largest redshift of the distance tables
MaxZ == 2
\* largest comoving radial distance of the tables, in Mpc
MaxChi == 3
\* longest redshift array handed to a Background function
MaxArray == 2
\* most axes of a redshift array
MaxDim == 2
\* longest axis of a redshift array
MaxAxis == 2
\* rows of a set of samples
NRows == 2
\* most rows of a column of samples sorted on its own
MaxSize == 11
\* largest output value of the samples
MaxBase == 1

\* y-operations of one emulator or engine
MaxOps == 2

\* set_samples and fit calls on one emulator
MaxCalls == 3

\* ranks of the communicator
NRanks == 2

\* varied outputs of the samples the ranks fit
MaxNames == 2

\* columns of the sample an operation is initialised on, and its largest value
MaxCols == 2

MaxValue == 2

\* largest density of cold dark matter or baryons, in units of a smallest one
MaxOmega == 2

\* ------------------------------------------------------------- vocabulary
Stages == {"background", "thermodynamics", "transfer", "harmonic", "lensing", "fourier"}

Flags == {"ba", "th", "tr", "le", "hr", "fo"}

Kinds == {"background", "thermodynamics", "transfer", "primordial", "harmonic", "fourier"}

\* the ready flag that compute sets for a requested stage
FlagOf(stage) ==
    CASE stage = "background" -> "ba"
      [] stage = "thermodynamics" -> "th"
      [] stage = "transfer" -> "tr"
      [] stage = "harmonic" -> "hr"
      [] stage = "lensing" -> "le"
      [] stage = "fourier" -> "fo"

VARIABLES
    ready,      \* CambEngine.ready: [Flags -> BOOLEAN]
    handles,    \* CambEngine.ba, .th, .tr, .le, .hr, .fo: [Flags -> handle]
    objs,       \* the solver objects created so far, per routine that made them
    lensing,    \* _params['lensing'], the cosmology's setting
    DoLensing,  \* _camb_params.DoLensing (and Want_CMB_lensing)
    NonLinear,  \* _camb_params.NonLinear != NonLinear_none
    sigma8,     \* _params['sigma8'], 0 when the key is absent
    As,         \* _camb_params.InitPower.As, in units such that sigma8^2 = As
    rsigma8,    \* CambEngine._rsigma8 as a fraction <<num, den>>, <<0, 0>> = None
    held,       \* the section the caller constructed last
    rin,        \* resolver input  (ResolverSpec)
    rout,       \* resolver output (ResolverSpec)
    rpc,        \* resolver position (ResolverSpec)
    pin,        \* input of the function applied   (FunctionSpec)
    pout,       \* what it returned, as <<result>> (FunctionSpec)
    ppc,        \* "idle", "start" or "done"       (FunctionSpec)
    emu,        \* the Emulator object and the call it ran last (EmulatorSpec)
    mpi         \* the ranks running one Emulator call          (MpiSpec)

evars == <<ready, handles, objs, lensing, DoLensing, NonLinear, sigma8, As, rsigma8, held>>

uvars == <<emu, mpi>>

pvars == <<pin, pout, ppc, emu, mpi>>

rvars == <<rin, rout, rpc, pin, pout, ppc, emu, mpi>>

vars == <<ready, handles, objs, lensing, DoLensing, NonLinear, sigma8, As, rsigma8, held, rin, rout, rpc, pin, pout, ppc, emu, mpi>>

\* ------------------------------------------------------- the task resolver
\* a task argument is either one name or a list of names
SeqsUpTo(S, n) == UNION {[1..m -> S] : m \in 0..n}

TaskInputs == [isList : {FALSE}, name : Stages, items : {<<>>}]
              \cup [isList : {TRUE}, name : {""}, items : SeqsUpTo(Stages, MaxLen)]

Range(s) == {s[i] : i \in DOMAIN s}

ListInput(s) == [isList |-> TRUE, name |-> "", items |-> s]

\* the single name n given as a string
Name(n) == [isList |-> FALSE, name |-> n, items |-> <<>>]

\* every list holding the names of S once each (list(set) has no fixed order)
ListsOf(S) == {s \in [1..Cardinality(S) -> S] : Range(s) = S}

\* one list of S, for callers that build their request from a set
RECURSIVE AsList(_)
AsList(S) == IF S = {} THEN <<>> ELSE LET x == CHOOSE y \in S : TRUE IN <<x>> \o AsList(S \ {x})

\* thermodynamics does not drop background
_build_task_dependency_keep(tasks) ==
    LET t0 == IF ~tasks.isList THEN <<tasks.name>> ELSE tasks.items
        t1 == Range(t0)
        t3 == IF "harmonic" \in t1 THEN t1 \cup {"fourier"} ELSE t1
        t4 == IF "fourier" \in t3 THEN t3 \cup {"transfer"} ELSE t3
    IN t4

\* the fourier rule is applied before the harmonic rule
_build_task_dependency_swapped(tasks) ==
    LET t0 == IF ~tasks.isList THEN <<tasks.name>> ELSE tasks.items
        t1 == Range(t0)
        t2 == IF "thermodynamics" \in t1 THEN t1 \ {"background"} ELSE t1
        t3 == IF "fourier" \in t2 THEN t2 \cup {"transfer"} ELSE t2
        t4 == IF "harmonic" \in t3 THEN t3 \cup {"fourier"} ELSE t3
    IN t4

\* the set that _build_task_dependency turns into its returned list
_build_task_dependency(tasks) ==
    LET t0 == IF ~tasks.isList THEN <<tasks.name>> ELSE tasks.items
        t1 == Range(t0)
        t2 == IF "thermodynamics" \in t1 THEN t1 \ {"background"} ELSE t1
        t3 == IF "harmonic" \in t2 THEN t2 \cup {"fourier"} ELSE t2
        t4 == IF "fourier" \in t3 THEN t3 \cup {"transfer"} ELSE t3
    IN t4

\* ------------------------------------------------------------- the engine
\* A handler runs on a record of the engine's fields.  err is the exception
\* in flight ("none" when there is none), ran the solver calls of this
\* handler in order, failAt the position in ran of the call that raises
\* (0: no call raises), raises the exception that call raises.
NoErr == "none"

\* the exception classes of camb.baseconfig the engine names (camb.py 181)
SolverErrors == {"CAMBParamRangeError", "CAMBValueError", "CAMBError", "CAMBUnknownArgumentError"}

\* what `except camb.baseconfig.CAMBError` catches: CAMBError and its
\* subclass CAMBParamRangeError; CAMBValueError and CAMBUnknownArgumentError
\* derive from ValueError
IsCAMBError(e) == e \in {"CAMBError", "CAMBParamRangeError"}

EngineRec(failAt, raises) ==
    [ready |-> ready, handles |-> handles, objs |-> objs, DoLensing |-> DoLensing,
     As |-> As, rsigma8 |-> rsigma8, err |-> NoErr, ran |-> <<>>, failAt |-> failAt,
     raises |-> raises]

\* a solver routine is invoked; it raises CAMBError when it is the failAt-th
SolverCall(st, routine) ==
    [st EXCEPT !.ran = Append(@, routine),
               !.err = IF Len(st.ran) + 1 = st.failAt THEN st.raises ELSE @]

\* the routines that return a new solver object: camb.get_background with
\* no_thermo=True and with no_thermo=False, camb.get_transfer_functions and
\* camb.CAMBdata
Makers == {"get_background", "get_background_thermo", "get_transfer_functions", "CAMBdata"}

NoHandle == [by |-> "none", n |-> 0]

\* a new solver object: the As its power spectra were computed with (0: not
\* computed) and the DoLensing of its Params
NewObj(doLensing) == [pk |-> 0, lensing |-> doLensing]

\* the routine returns a new object; the handle of the one it returned last
Make(st, routine, doLensing) == [st EXCEPT !.objs[routine] = Append(@, NewObj(doLensing))]

Newest(st, routine) == [by |-> routine, n |-> Len(st.objs[routine])]

\* the solver object behind a handle
Obj(h) == objs[h.by][h.n]

IsObj(h) == h.by \in Makers /\ h.n \in DOMAIN objs[h.by]

\* background is solved again although its flag is set
BackgroundBlock_unguarded(st, tasks) ==
    IF st.err # NoErr \/ ~("background" \in tasks) THEN st
    ELSE LET c == SolverCall(st, "get_background")
         IN IF c.err # NoErr THEN c
            ELSE LET m == Make(c, "get_background", c.DoLensing)
                 IN [m EXCEPT !.handles.ba = Newest(m, "get_background"),
                              !.ready.ba = TRUE]

\* camb.py 201-203
BackgroundBlock(st, tasks) ==
    IF st.err # NoErr \/ ~("background" \in tasks /\ ~st.ready.ba) THEN st
    ELSE LET c == SolverCall(st, "get_background")
         IN IF c.err # NoErr THEN c
            ELSE LET m == Make(c, "get_background", c.DoLensing)
                 IN [m EXCEPT !.handles.ba = Newest(m, "get_background"),
                              !.ready.ba = TRUE]

\* the thermodynamics solve marks thermodynamics only
ThermodynamicsBlock_thonly(st, tasks) ==
    IF st.err # NoErr \/ ~("thermodynamics" \in tasks /\ ~st.ready.th) THEN st
    ELSE LET c == SolverCall(st, "get_background")
         IN IF c.err # NoErr THEN c
            ELSE LET m == Make(c, "get_background_thermo", c.DoLensing)
                 IN [m EXCEPT !.handles.ba = Newest(m, "get_background_thermo"),
                              !.handles.th = Newest(m, "get_background_thermo"),
                              !.ready.th = TRUE]

\* camb.py 205-207
ThermodynamicsBlock(st, tasks) ==
    IF st.err # NoErr \/ ~("thermodynamics" \in tasks /\ ~st.ready.th) THEN st
    ELSE LET c == SolverCall(st, "get_background")
         IN IF c.err # NoErr THEN c
            ELSE LET m == Make(c, "get_background_thermo", c.DoLensing)
                 IN [m EXCEPT !.handles.ba = Newest(m, "get_background_thermo"),
                              !.handles.th = Newest(m, "get_background_thermo"),
                              !.ready.ba = TRUE,
                              !.ready.th = TRUE]

\* the transfer functions are solved again although their flag is set
TransferBlock_unguarded(st, tasks) ==
    IF st.err # NoErr \/ ~("transfer" \in tasks) THEN st
    ELSE LET c == SolverCall(st, "get_transfer_functions")
         IN IF c.err # NoErr THEN c
            ELSE LET m == Make(c, "get_transfer_functions", c.DoLensing)
                 IN [m EXCEPT !.handles.tr = Newest(m, "get_transfer_functions"),
                              !.ready.tr = TRUE]

\* camb.py 209-211
TransferBlock(st, tasks) ==
    IF st.err # NoErr \/ ~("transfer" \in tasks /\ ~st.ready.tr) THEN st
    ELSE LET c == SolverCall(st, "get_transfer_functions")
         IN IF c.err # NoErr THEN c
            ELSE LET m == Make(c, "get_transfer_functions", c.DoLensing)
                 IN [m EXCEPT !.handles.tr = Newest(m, "get_transfer_functions"),
                              !.ready.tr = TRUE]

\* fourier is invalidated by every harmonic request
HarmonicBlock_unguarded(st, tasks) ==
    IF st.err # NoErr \/ ~("harmonic" \in tasks) THEN st
    ELSE [st EXCEPT !.ready.hr = TRUE, !.ready.fo = FALSE]

\* camb.py 213-218
HarmonicBlock(st, tasks) ==
    IF st.err # NoErr \/ ~("harmonic" \in tasks /\ ~st.ready.hr) THEN st
    ELSE [st EXCEPT !.ready.hr = TRUE, !.ready.fo = FALSE]

\* tr.calc_power_spectra(_camb_params) on the object behind handle tr
CalcPowerSpectra(st) ==
    [st EXCEPT !.objs[st.handles.tr.by][st.handles.tr.n].pk = st.As,
               !.objs[st.handles.tr.by][st.handles.tr.n].lensing = st.DoLensing]

\* replacing the transfer handle also marks transfer as not ready
LensingBlock_resets(st, tasks) ==
    IF st.err # NoErr \/ ~("lensing" \in tasks /\ ~st.ready.le) THEN st
    ELSE LET m == Make(st, "CAMBdata", TRUE)
             s1 == [m EXCEPT !.DoLensing = TRUE,
                             !.ready.le = TRUE,
                             !.ready.tr = FALSE,
                             !.handles.tr = Newest(m, "CAMBdata")]
             c == SolverCall(s1, "calc_power_spectra")
         IN IF c.err # NoErr THEN c
            ELSE LET s2 == CalcPowerSpectra(c)
                 IN [s2 EXCEPT !.handles.le = s2.handles.tr,
                               !.handles.hr = s2.handles.tr,
                               !.handles.fo = s2.handles.tr,
                               !.ready.fo = TRUE]

\* camb.py 220-227
LensingBlock(st, tasks) ==
    IF st.err # NoErr \/ ~("lensing" \in tasks /\ ~st.ready.le) THEN st
    ELSE LET m == Make(st, "CAMBdata", TRUE)
             s1 == [m EXCEPT !.DoLensing = TRUE,
                             !.ready.le = TRUE,
                             !.handles.tr = Newest(m, "CAMBdata")]
             c == SolverCall(s1, "calc_power_spectra")
         IN IF c.err # NoErr THEN c
            ELSE LET s2 == CalcPowerSpectra(c)
                 IN [s2 EXCEPT !.handles.le = s2.handles.tr,
                               !.handles.hr = s2.handles.tr,
                               !.handles.fo = s2.handles.tr,
                               !.ready.fo = TRUE]

\* the power spectra are solved again although fourier is ready
FourierBlock_unguarded(st, tasks) ==
    IF st.err # NoErr \/ ~("fourier" \in tasks) THEN st
    ELSE LET c == SolverCall(st, "calc_power_spectra")
         IN IF c.err # NoErr THEN c
            ELSE LET s2 == CalcPowerSpectra(c)
                 IN [s2 EXCEPT !.handles.fo = s2.handles.tr,
                               !.handles.hr = s2.handles.tr,
                               !.handles.le = s2.handles.tr,
                               !.ready.fo = TRUE]

\* camb.py 229-232
FourierBlock(st, tasks) ==
    IF st.err # NoErr \/ ~("fourier" \in tasks /\ ~st.ready.fo) THEN st
    ELSE LET c == SolverCall(st, "calc_power_spectra")
         IN IF c.err # NoErr THEN c
            ELSE LET s2 == CalcPowerSpectra(c)
                 IN [s2 EXCEPT !.handles.fo = s2.handles.tr,
                               !.handles.hr = s2.handles.tr,
                               !.handles.le = s2.handles.tr,
                               !.ready.fo = TRUE]

\* CambEngine.__init__, camb.py 64-183: the exception the constructor ends
\* with when the parameter translation raises the given solver exception
CambEngineInit(raises) ==
    IF raises \in SolverErrors THEN "CosmologyInputError" ELSE raises

\* camb.py 201-232: the blocks in source order, on the resolved task set t
Blocks(st, t) ==
    FourierBlock(LensingBlock(HarmonicBlock(TransferBlock(
        ThermodynamicsBlock(BackgroundBlock(st, t), t), t), t), t), t)

\* camb.py 234-236: a CAMBError leaves compute as a CosmologyInputError
Reraise(s) == IF IsCAMBError(s.err) THEN [s EXCEPT !.err = "CosmologyInputError"] ELSE s

\* CambEngine.compute
compute(st, tasks) ==
    IF st.err # NoErr THEN st ELSE Reraise(Blocks(st, _build_task_dependency(tasks)))

\* ---------------------------------------------------------- sigma8 rescaling
RECURSIVE Gcd(_, _)
Gcd(a, b) == IF b = 0 THEN a ELSE Gcd(b, a % b)

\* the fraction n/d in lowest terms
Frac(n, d) == LET g == Gcd(n, d) IN <<n \div g, d \div g>>

None == <<0, 0>>

One == <<1, 1>>

\* the largest r with r * r <= n
Isqrt(n) == CHOOSE r \in 0..n : r * r <= n /\ n < (r + 1) * (r + 1)

\* fo.get_sigma8()[-1]: the linear sigma8 of the spectra of a solver object,
\* which grows as the square root of the amplitude they were computed with
get_sigma8(obj) == Isqrt(obj.pk)

\* Fourier.sigma8_m (camb.py 672-674) on engine f: the sigma8 of the spectra
\* behind handle fo times the cached factor
sigma8_m(f) ==
    <<get_sigma8(f.objs[f.handles.fo.by][f.handles.fo.n]) * f.rsigma8[1], f.rsigma8[2]>>

\* _rsigma8 = _params['sigma8'] / sigma8_m, unless an exception is in flight
SetRatio(f) ==
    IF f.err # NoErr THEN f
    ELSE [f EXCEPT !.rsigma8 = Frac(sigma8 * sigma8_m(f)[2], sigma8_m(f)[1])]

\* camb.py 249 and 257: _params['sigma8'] / get_fourier().sigma8_m.  The
\* section cache was cleared just before, so get_fourier() builds a Fourier
\* section: Fourier.__init__ runs compute('fourier') and takes the cached
\* _rsigma8.
MeasureSigma8(st) == SetRatio(compute(st, Name("fourier")))

\* camb.py 254-257, after tr.calc_power_spectra was called
Recalculated(c) ==
    IF c.err # NoErr THEN c
    ELSE MeasureSigma8([CalcPowerSpectra(c) EXCEPT !.rsigma8 = One])

\* the power spectra are recomputed whether or not a non-linear model is set
RescaleNonLinear_always(st) ==
    IF st.err # NoErr THEN st
    ELSE Recalculated(SolverCall([st EXCEPT !.As = (st.As * st.rsigma8[1] * st.rsigma8[1])
                                                    \div (st.rsigma8[2] * st.rsigma8[2])],
                                 "calc_power_spectra"))

\* camb.py 252-257: the non-linear branch
RescaleNonLinear(st) ==
    IF st.err # NoErr \/ ~NonLinear THEN st
    ELSE Recalculated(SolverCall([st EXCEPT !.As = (st.As * st.rsigma8[1] * st.rsigma8[1])
                                                    \div (st.rsigma8[2] * st.rsigma8[2])],
                                 "calc_power_spectra"))

\* CambEngine._rescale_sigma8; the value returned is the rsigma8 of the result
_rescale_sigma8(st) ==
    IF st.err # NoErr \/ st.rsigma8 # None THEN st
    ELSE IF sigma8 = 0 THEN [st EXCEPT !.rsigma8 = One]
    ELSE RescaleNonLinear(MeasureSigma8([st EXCEPT !.rsigma8 = One]))

\* ------------------------------------------------------------- the sections
\* what a section object keeps of the engine: the handles it copied in its
\* constructor (NoHandle for those it does not keep) and its _rsigma8
NoSection == [kind |-> "none", ba |-> NoHandle, th |-> NoHandle, tr |-> NoHandle,
              hr |-> NoHandle, fo |-> NoHandle, rsigma8 |-> None]

\* Each constructor yields the engine after it (eng) and the section it
\* built (sec); s is the engine after the constructor's compute call, r the
\* engine after its _rescale_sigma8 call.
\* camb.py 268
BackgroundAttrs(s) ==
    [eng |-> s, sec |-> [NoSection EXCEPT !.kind = "background", !.ba = s.handles.ba]]

\* Background.__init__
BackgroundInit(st) == BackgroundAttrs(compute(st, Name("background")))

\* camb.py 435-436
ThermodynamicsAttrs(s) ==
    [eng |-> s, sec |-> [NoSection EXCEPT !.kind = "thermodynamics",
                                          !.th = s.handles.th, !.ba = s.handles.ba]]

\* Thermodynamics.__init__
ThermodynamicsInit(st) == ThermodynamicsAttrs(compute(st, Name("thermodynamics")))

\* camb.py 469
TransferAttrs(s) ==
    [eng |-> s, sec |-> [NoSection EXCEPT !.kind = "transfer", !.tr = s.handles.tr]]

\* Transfer.__init__
TransferInit(st) == TransferAttrs(compute(st, Name("transfer")))

\* camb.py 497
PrimordialAttrs(r) ==
    [eng |-> r, sec |-> [NoSection EXCEPT !.kind = "primordial", !.rsigma8 = r.rsigma8]]

\* Primordial.__init__
PrimordialInit(st) == PrimordialAttrs(_rescale_sigma8(st))

\* camb.py 593-594
HarmonicAttrs(s, r) ==
    [eng |-> r, sec |-> [NoSection EXCEPT !.kind = "harmonic", !.hr = s.handles.hr,
                                          !.rsigma8 = r.rsigma8]]

\* camb.py 593-594, after compute('harmonic')
HarmonicComputed(s) == HarmonicAttrs(s, _rescale_sigma8(s))

\* the handle is copied before the stage is computed
HarmonicInit_early(st) ==
    HarmonicAttrs(st, _rescale_sigma8(compute(st, Name("harmonic"))))

\* Harmonic.__init__
HarmonicInit(st) == HarmonicComputed(compute(st, Name("harmonic")))

\* camb.py 650-652
FourierAttrs(s, r) ==
    [eng |-> r, sec |-> [NoSection EXCEPT !.kind = "fourier", !.fo = s.handles.fo,
                                          !.rsigma8 = r.rsigma8]]

\* camb.py 650-652, after compute('fourier')
FourierComputed(s) == FourierAttrs(s, _rescale_sigma8(s))

\* Fourier.__init__
FourierInit(st) == FourierComputed(compute(st, Name("fourier")))

SectionInit(kind, st) ==
    CASE kind = "background" -> BackgroundInit(st)
      [] kind = "thermodynamics" -> ThermodynamicsInit(st)
      [] kind = "transfer" -> TransferInit(st)
      [] kind = "primordial" -> PrimordialInit(st)
      [] kind = "harmonic" -> HarmonicInit(st)
      [] kind = "fourier" -> FourierInit(st)

\* ------------------------------------------------- what the sections return
\* A request to a section yields the exception it raises (err), what it
\* returns, and for a Harmonic section the section afterwards (sec).
\* camb.py 599-600, 615-616, 625-626
TableLmax(ellmax) == IF ellmax < 0 THEN ellmax_cl + 1 + ellmax ELSE ellmax

\* the check on the handle's Params is left out
lens_potential_cl_unchecked(sec, ellmax) ==
    [err |-> NoErr, lmax |-> TableLmax(ellmax), sec |-> [sec EXCEPT !.hr = handles.hr]]

\* Harmonic.lens_potential_cl
lens_potential_cl(sec, ellmax) ==
    IF ~Obj(sec.hr).lensing THEN [err |-> "CAMBError", lmax |-> ellmax, sec |-> sec]
    ELSE [err |-> NoErr, lmax |-> TableLmax(ellmax), sec |-> [sec EXCEPT !.hr = handles.hr]]

\* Harmonic.lensed_cl
lensed_cl(sec, ellmax) ==
    IF ~Obj(sec.hr).lensing THEN [err |-> "CAMBError", lmax |-> TableLmax(ellmax), sec |-> sec]
    ELSE [err |-> NoErr, lmax |-> TableLmax(ellmax), sec |-> sec]

\* the refusal is raised as the Input error kind
table_converted(sec, non_linear) ==
    IF non_linear /\ ~NonLinear THEN [err |-> "CosmologyInputError", fo |-> sec.fo, nonlinear |-> non_linear]
    ELSE [err |-> NoErr, fo |-> sec.fo, nonlinear |-> non_linear]

\* Fourier.table, camb.py 728-731: the spectrum is read off the section's fo
table(sec, non_linear) ==
    IF non_linear /\ ~NonLinear THEN [err |-> "CAMBError", fo |-> sec.fo, nonlinear |-> non_linear]
    ELSE [err |-> NoErr, fo |-> sec.fo, nonlinear |-> non_linear]

\* Fourier.pk_interpolator, camb.py 753-754
pk_interpolator(sec, non_linear) == table(sec, non_linear)

\* ---------------------------------------------------------------- the steps
\* the engine's fields after a handler
Commit(st) ==
    /\ ready' = st.ready
    /\ handles' = st.handles
    /\ objs' = st.objs
    /\ DoLensing' = st.DoLensing
    /\ As' = st.As
    /\ rsigma8' = st.rsigma8

\* what a caller may pass to compute: one name, or a list of up to MaxTasks names
ComputeInputs ==
    {Name(n) : n \in Stages}
    \cup {ListInput(AsList(S)) : S \in {T \in SUBSET Stages : Cardinality(T) <= MaxTasks}}

Requested(tasks) == IF tasks.isList THEN Range(tasks.items) ELSE {tasks.name}

\* the faults of a handler that makes n solver calls: none, or the failAt-th
\* call raising one of the solver's exceptions
Faults(n) == {<<0, NoErr>>} \cup ((1..n) \X SolverErrors)

\* every way engine.compute(tasks) can end from the current state: no solver
\* call raises, or any one of the calls it makes raises
ComputeRuns(tasks) ==
    {compute(EngineRec(f[1], f[2]), tasks) :
        f \in Faults(Len(compute(EngineRec(0, NoErr), tasks).ran))}

\* every way the constructor of a section of the given kind can end
ConstructRuns(kind) ==
    {SectionInit(kind, EngineRec(f[1], f[2])) :
        f \in Faults(Len(SectionInit(kind, EngineRec(0, NoErr)).eng.ran))}

\* engine.compute(tasks)
Compute(tasks) ==
    \E st \in ComputeRuns(tasks) :
        /\ Commit(st)
        /\ UNCHANGED <<held, lensing, NonLinear, sigma8, rvars>>

\* a section of the given kind is constructed on the engine; the caller has
\* the section when the constructor returns
Construct(kind) ==
    \E res \in ConstructRuns(kind) :
        /\ Commit(res.eng)
        /\ held' = IF res.eng.err = NoErr THEN res.sec ELSE held
        /\ UNCHANGED <<lensing, NonLinear, sigma8, rvars>>

\* the values of ellmax a caller passes: the default -1, other negative
\* ones, and explicit ones
EllMaxes == {-2, -1, 0, 1, 100}

\* hr.lensed_cl(ellmax) or hr.lens_potential_cl(ellmax) on the Harmonic
\* section the caller holds
HarmonicRead(name, ellmax) ==
    /\ held.kind = "harmonic"
    /\ held' = IF name = "lensed_cl" THEN lensed_cl(held, ellmax).sec
                ELSE lens_potential_cl(held, ellmax).sec
    /\ UNCHANGED <<ready, handles, objs, lensing, DoLensing, NonLinear, sigma8, As, rsigma8, rvars>>

\* fo.table(non_linear) or fo.pk_interpolator(non_linear) on the Fourier
\* section the caller holds; neither assigns anything
FourierRead(name, non_linear) ==
    /\ held.kind = "fourier"
    /\ IF name = "table" THEN table(held, non_linear).err \in {NoErr, "CAMBError"}
       ELSE pk_interpolator(held, non_linear).err \in {NoErr, "CAMBError"}
    /\ UNCHANGED vars

\* base_params['As'] (camb.py 79) in the runs checked: a sigma8 of 2
InitialAs == 4

\* the engine as CambEngine.__init__ leaves it (camb.py 185), for every
\* setting of lensing, non_linear and sigma8
EngineInit ==
    /\ ready = [f \in Flags |-> FALSE]
    /\ handles = [f \in Flags |-> NoHandle]
    /\ objs = [r \in Makers |-> <<>>]
    /\ lensing \in BOOLEAN
    /\ DoLensing = lensing
    /\ NonLinear \in BOOLEAN
    /\ sigma8 \in {0, 3}
    /\ As = InitialAs
    /\ rsigma8 = None
    /\ held = NoSection

\* no Emulator has been constructed, no ranks are running
EmulatorIdle ==
    /\ emu = [pc |-> "idle"]
    /\ mpi = [pc |-> "idle"]

FunctionIdle ==
    /\ pin = [fn |-> "none"]
    /\ pout = <<>>
    /\ ppc = "idle"
    /\ EmulatorIdle

ResolverIdle ==
    /\ rin = Name("fourier")
    /\ rout = <<>>
    /\ rpc = "idle"
    /\ FunctionIdle

\* ------------------------------------------- the functions on their own
\* the parameter names and values of the mappings merged in __init__
ParamKeys == {"kmax", "AccuracyBoost"}

ParamValues == {1, 2}

\* the mappings from some of the keys K to values of V
Mappings(K, V) == UNION {[D -> V] : D \in SUBSET K}

\* Python's a | b on dicts: the keys of both, b's value where both have one
DictUnion(a, b) ==
    [k \in DOMAIN a \cup DOMAIN b |-> IF k \in DOMAIN b THEN b[k] ELSE a[k]]

\* camb.py 114: all_params = self._extra_params | base_params
all_params(extra_params, base_params) == DictUnion(extra_params, base_params)

\* ---- the neutrino convention, camb.py 156-164
\* A float is a fraction <<numerator, denominator>> in lowest terms, and a
\* temperature ratio is a fraction c times (4/11)^(e/3) with e in 0..2, so
\* that the cube roots of the conversion are computed exactly.
RatMul(a, b) == Frac(a[1] * b[1], a[2] * b[2])

RECURSIVE RatPow(_, _)
RatPow(a, n) == IF n = 0 THEN One ELSE RatMul(a, RatPow(a, n - 1))

\* c * (4/11)^(k/3) for any integer k, with the whole powers of 4/11 moved
\* into the fraction
Real(c, k) ==
    [c |-> RatMul(c, IF k >= (k % 3) THEN RatPow(<<4, 11>>, (k - (k % 3)) \div 3)
                                   ELSE RatPow(<<11, 4>>, ((k % 3) - k) \div 3)),
     e |-> k % 3]

RealMul(x, y) == Real(RatMul(x.c, y.c), x.e + y.e)

RealDiv(x, y) == Real(RatMul(x.c, <<y.c[2], y.c[1]>>), x.e - y.e)

RECURSIVE RealPow(_, _)
RealPow(x, n) == IF n = 0 THEN Real(One, 0) ELSE RealMul(x, RealPow(x, n - 1))

\* (11/4)^(k/3), the form the neutrino temperature is written in
ElevenFourthsPow(k) == Real(One, 0 - k)

\* the standard neutrino temperature ratio (4/11)^(1/3)
StandardRatio == Real(One, 1)

\* the values of T_ncdm_over_cmb in the runs checked: the standard ratio,
\* half of it, and 1
TempRatios == {StandardRatio, Real(<<1, 2>>, 1), Real(One, 0)}

RECURSIVE SumOf(_)
SumOf(m) == IF m = <<>> THEN 0 ELSE m[1] + SumOf(Tail(m))

\* camb.py 156: g = T_ncdm_over_cmb**4 * (4. / 11.)**(-4. / 3.), per species
nu_mass_degeneracies(T_ncdm_over_cmb) ==
    [i \in DOMAIN T_ncdm_over_cmb |->
        RealMul(RealPow(T_ncdm_over_cmb[i], 4), Real(One, -4))]

\* a zero total mass gives zero fractions
f_ncdm_zeros(m_ncdm) ==
    [i \in DOMAIN m_ncdm |->
        IF SumOf(m_ncdm) = 0 THEN <<0, 1>> ELSE Frac(m_ncdm[i], SumOf(m_ncdm))]

\* camb.py 159-162: full_like(m_ncdm, 1/3) when the masses sum to zero,
\* m_ncdm / m_ncdm.sum() otherwise
f_ncdm(m_ncdm) ==
    [i \in DOMAIN m_ncdm |->
        IF SumOf(m_ncdm) = 0 THEN <<1, 3>> ELSE Frac(m_ncdm[i], SumOf(m_ncdm))]

\* the species of a cosmology: a mass (in units of the smallest one) and a
\* temperature ratio each
Species == [m : 0..MaxMass, T : TempRatios]

NeutrinoInputs ==
    [fn : {"neutrinos"}, species : UNION {[1..n -> Species] : n \in 0..MaxSpecies}]

m_ncdm_of(in) == [i \in DOMAIN in.species |-> in.species[i].m]

T_ncdm_of(in) == [i \in DOMAIN in.species |-> in.species[i].T]

\* CambEngine.__init__ hands the fractions and degeneracies to the solver
SetNeutrinos ==
    /\ ppc = "start" /\ pin.fn = "neutrinos"
    /\ pout' = <<[nu_mass_fractions |-> f_ncdm(m_ncdm_of(pin)),
                  nu_mass_degeneracies |-> nu_mass_degeneracies(T_ncdm_of(pin))]>>
    /\ ppc' = "done"
    /\ UNCHANGED <<pin, rin, rout, rpc, evars, uvars>>

\* ---- Background.angular_diameter_distance_2, camb.py 388-407
\* The solver's background is its table chi of comoving radial distances
\* (in Mpc, by redshift); the section holds it with h and the curvature K.
\* Redshifts are the integers 0..MaxZ and the arguments arrays of them.
Redshifts == 0..MaxZ

\* the distance tables: zero today and growing with redshift
Distances ==
    {c \in [Redshifts -> 0..MaxChi] :
        c[0] = 0 /\ \A z \in 1..MaxZ : c[z - 1] < c[z]}

\* camb.py 369-376: self.ba.comoving_radial_distance(z) * self._h
comoving_radial_distance(sec, z) == sec.chi[z] * sec.h

\* S_K of camb.py 403-407 for K # 0, not evaluated
CurvedDistance(K, dchi, z2) ==
    [S |-> IF K > 0 THEN "sin" ELSE "sinh", K |-> K, dchi |-> dchi, over |-> 1 + z2]

\* camb.py 403-407, for one pair of redshifts
FromComoving(K, chi1, chi2, z2) ==
    IF K = 0 THEN Frac(chi2 - chi1, 1 + z2) ELSE CurvedDistance(K, chi2 - chi1, z2)

\* camb.py 397, commented out: camb's angular_diameter_distance2(z1, z2),
\* which returns 0 when z2 < z1, times h
angular_diameter_distance_2_native(sec, z1, z2) ==
    [value |-> [i \in DOMAIN z1 |->
                   IF z2[i] < z1[i] THEN <<0, 1>>
                   ELSE FromComoving(sec.K, sec.chi[z1[i]] * sec.h, sec.chi[z2[i]] * sec.h, z2[i])],
     warned |-> FALSE,
     err |-> NoErr,
     calls |-> {"angular_diameter_distance2"}]

\* camb.py 398-407: warns when some z2 is below its z1, then combines the
\* two comoving radial distances
angular_diameter_distance_2(sec, z1, z2) ==
    [value |-> [i \in DOMAIN z1 |->
                   FromComoving(sec.K, comoving_radial_distance(sec, z1[i]),
                                comoving_radial_distance(sec, z2[i]), z2[i])],
     warned |-> \E i \in DOMAIN z1 : z2[i] < z1[i],
     err |-> NoErr,
     calls |-> {"comoving_radial_distance"}]

\* a section, and two redshift arrays of one length
DistanceInputs ==
    UNION {[fn : {"angular_diameter_distance_2"},
            chi : Distances, h : {1, 2}, K : {-1, 0, 1},
            z1 : [1..n -> Redshifts], z2 : [1..n -> Redshifts]] : n \in 1..MaxArray}

\* Background.angular_diameter_distance_2(z1, z2)
Distance2 ==
    /\ ppc = "start" /\ pin.fn = "angular_diameter_distance_2"
    /\ pout' = <<angular_diameter_distance_2(pin, pin.z1, pin.z2)>>
    /\ ppc' = "done"
    /\ UNCHANGED <<pin, rin, rout, rpc, evars, uvars>>

\* ---- the Background functions of redshift, camb.py 283-425
\* An array is its shape (the sequence of its axis lengths, empty for a
\* scalar) and the size in bytes of its elements; err is the exception an
\* operation on it raised.
NDArray(shape, itemsize) == [shape |-> shape, itemsize |-> itemsize, err |-> NoErr]

RECURSIVE Size(_)
Size(shape) == IF shape = <<>> THEN 1 ELSE shape[1] * Size(Tail(shape))

\* the floating-point element sizes: float16, float32, float64
ItemSizes == {2, 4, 8}

Shapes == UNION {[1..d -> 0..MaxAxis] : d \in 0..MaxDim}

\* utils.flatarray(dtype=np.float64), on the way in: the argument as a
\* one-dimensional float64 array
flat(z) == NDArray(<<Size(z.shape)>>, 8)

\* utils.flatarray, on the way out: the last axis of the result replaced by
\* the shape of the argument, in the precision of the argument
reshaped(res, z) ==
    IF res.err # NoErr THEN res
    ELSE IF res.shape = <<>> \/ Size(res.shape) # Size(SubSeq(res.shape, 1, Len(res.shape) - 1) \o z.shape)
         THEN [res EXCEPT !.err = "ValueError"]
         ELSE NDArray(SubSeq(res.shape, 1, Len(res.shape) - 1) \o z.shape, z.itemsize)

\* what a routine of the solver returns for the redshifts z: a float64
\* array with one entry per redshift
SolverArray(z) == NDArray(z.shape, 8)

\* the product of two arrays of one shape
Times(a, b) ==
    IF a.err # NoErr THEN a
    ELSE IF a.shape # b.shape THEN [a EXCEPT !.err = "ValueError"]
    ELSE NDArray(a.shape, IF a.itemsize > b.itemsize THEN a.itemsize ELSE b.itemsize)

OmegaNames == {"Omega_k", "Omega_cdm", "Omega_b", "Omega_g", "Omega_ur", "Omega_ncdm_tot", "Omega_de"}

RhoNames == {"rho_k", "rho_cdm", "rho_b", "rho_g", "rho_ur", "rho_ncdm_tot", "rho_de"}

DistanceNames == {"comoving_radial_distance", "angular_diameter_distance", "luminosity_distance"}

BackgroundNames ==
    OmegaNames \cup RhoNames \cup DistanceNames
        \cup {"efunc", "hubble_function", "time", "comoving_angular_distance"}

\* camb.py 283-316: self.ba.get_Omega(var, z=z)
Omega(z) == SolverArray(z)

\* camb.py 318-351: get_background_densities(1. / (1 + z))[var] * self._RH0_ * (1 + z)
rho(z) == Times(SolverArray(z), z)

\* camb.py 358-361
hubble_function(z) == SolverArray(z)

\* camb.py 353-356: the decorated hubble_function of the flat z, over 100 h
efunc(z) == reshaped(hubble_function(flat(z)), z)

\* np.vectorize is applied to an empty array too, which it refuses
time_unguarded(z) ==
    IF Size(z.shape) # 0 THEN SolverArray(z) ELSE [z EXCEPT !.err = "ValueError"]

\* camb.py 363-367: np.vectorize(physical_time)(z), np.zeros_like(z) for an
\* empty z
time(z) == IF Size(z.shape) # 0 THEN SolverArray(z) ELSE z

\* camb.py 369-386, 419-425: a distance of the solver times h
distance(z) == SolverArray(z)

\* camb.py 409-417: the decorated angular_diameter_distance times (1. + z)
comoving_angular_distance(z) == Times(reshaped(distance(flat(z)), z), z)

\* the function as the class defines it, on the flat float64 redshifts
Undecorated(name, z) ==
    CASE name \in OmegaNames -> Omega(z)
      [] name \in RhoNames -> rho(z)
      [] name \in DistanceNames -> distance(z)
      [] name = "efunc" -> efunc(z)
      [] name = "hubble_function" -> hubble_function(z)
      [] name = "time" -> time(z)
      [] name = "comoving_angular_distance" -> comoving_angular_distance(z)

\* the function as callers see it, decorated with utils.flatarray
BackgroundFunction(name, z) == reshaped(Undecorated(name, flat(z)), z)

ArrayInputs ==
    [fn : {"background"}, name : BackgroundNames,
     z : {NDArray(sh, it) : sh \in Shapes, it \in ItemSizes}]

\* getattr(ba, name)(z) on a Background section
CallBackground ==
    /\ ppc = "start" /\ pin.fn = "background"
    /\ pout' = <<BackgroundFunction(pin.name, pin.z)>>
    /\ ppc' = "done"
    /\ UNCHANGED <<pin, rin, rout, rpc, evars, uvars>>

MergeInputs == [fn : {"all_params"}, extra_params : Mappings(ParamKeys, ParamValues),
                base_params : Mappings(ParamKeys, ParamValues)]

\* ---- ScaleOperation and NormOperation, base.py 786-825
\* A sample is a list of rows of MaxCols or fewer values each; limits, mean
\* and sigma are taken along axis 0, column by column.  Floats are fractions;
\* a fraction with denominator 0 is the nan or inf that numpy returns for a
\* division by zero.
NotFinite(a) == a[2] = 0

RatAdd(a, b) ==
    IF NotFinite(a) \/ NotFinite(b) THEN None
    ELSE Frac(a[1] * b[2] + b[1] * a[2], a[2] * b[2])

RatSub(a, b) ==
    IF NotFinite(a) \/ NotFinite(b) THEN None
    ELSE Frac(a[1] * b[2] - b[1] * a[2], a[2] * b[2])

RatProd(a, b) == IF NotFinite(a) \/ NotFinite(b) THEN None ELSE RatMul(a, b)

RatDiv(a, b) ==
    IF NotFinite(a) \/ NotFinite(b) \/ b[1] = 0 THEN None
    ELSE IF b[1] > 0 THEN Frac(a[1] * b[2], a[2] * b[1])
    ELSE Frac(0 - a[1] * b[2], 0 - a[2] * b[1])

OperationSamples ==
    UNION {[1..n -> [1..c -> 0..MaxValue]] : n \in 1..NRows, c \in 1..MaxCols}

Column(sample, j) == [r \in DOMAIN sample |-> sample[r][j]]

MinOf(col) == CHOOSE m \in {col[r] : r \in DOMAIN col} : \A r \in DOMAIN col : m <= col[r]

MaxOf(col) == CHOOSE m \in {col[r] : r \in DOMAIN col} : \A r \in DOMAIN col : m >= col[r]

\* base.py 802-804: limits of a column whose minimum equals its maximum are
\* replaced by 0 and 1
scale_limits(col) ==
    IF MaxOf(col) = MinOf(col) THEN <<0, 1>> ELSE <<MinOf(col), MaxOf(col)>>

\* '(v - limits[0]) / (limits[1] - limits[0])'
scale_direct(v, limits) == RatDiv(<<v - limits[1], 1>>, <<limits[2] - limits[1], 1>>)

\* 'v * (limits[1] - limits[0]) + limits[0]'
scale_inverse(w, limits) ==
    RatAdd(RatProd(w, <<limits[2] - limits[1], 1>>), <<limits[1], 1>>)

RECURSIVE SumCol(_, _)
SumCol(col, n) == IF n = 0 THEN <<0, 1>> ELSE RatAdd(SumCol(col, n - 1), col[n])

\* np.mean(v, axis=0)
norm_mean(col) ==
    RatDiv(SumCol([r \in DOMAIN col |-> <<col[r], 1>>], Len(col)), <<Len(col), 1>>)

\* np.std(v, ddof=1, axis=0) squared: the squared deviations over n - 1
norm_variance(col) ==
    RatDiv(SumCol([r \in DOMAIN col |->
                      RatProd(RatSub(<<col[r], 1>>, norm_mean(col)),
                              RatSub(<<col[r], 1>>, norm_mean(col)))], Len(col)),
           <<Len(col) - 1, 1>>)

\* base.py 822: np.where(sigma == 0., 1., sigma); sigma is kept as its
\* square
norm_sigma2(col) == IF norm_variance(col) = <<0, 1>> THEN One ELSE norm_variance(col)

\* a value q * sigma^e
\* '(v - mean) / sigma'
norm_direct(v, mean, sigma2) ==
    IF NotFinite(sigma2) \/ sigma2[1] = 0 \/ NotFinite(mean) THEN [q |-> None, e |-> 0]
    ELSE IF sigma2 = One THEN [q |-> RatSub(<<v, 1>>, mean), e |-> 0]
    ELSE [q |-> RatSub(<<v, 1>>, mean), e |-> 0 - 1]

\* 'v * sigma + mean'
norm_inverse(w, mean, sigma2) ==
    IF NotFinite(sigma2) \/ NotFinite(w.q) THEN None
    ELSE IF sigma2 = One \/ w.e = 0 - 1 THEN RatAdd(w.q, mean)
    ELSE None

\* initialize on the sample, then direct and inverse on each of its rows
operation_round_trip(kind, sample) ==
    IF kind = "scale"
    THEN [direct |-> [r \in DOMAIN sample |-> [j \in DOMAIN sample[r] |->
                        scale_direct(sample[r][j], scale_limits(Column(sample, j)))]],
          back |-> [r \in DOMAIN sample |-> [j \in DOMAIN sample[r] |->
                        scale_inverse(scale_direct(sample[r][j], scale_limits(Column(sample, j))),
                                      scale_limits(Column(sample, j)))]]]
    ELSE [direct |-> [r \in DOMAIN sample |-> [j \in DOMAIN sample[r] |->
                        norm_direct(sample[r][j], norm_mean(Column(sample, j)),
                                    norm_sigma2(Column(sample, j))).q]],
          back |-> [r \in DOMAIN sample |-> [j \in DOMAIN sample[r] |->
                        norm_inverse(norm_direct(sample[r][j], norm_mean(Column(sample, j)),
                                                 norm_sigma2(Column(sample, j))),
                                     norm_mean(Column(sample, j)),
                                     norm_sigma2(Column(sample, j)))]]]

OperationInputs == [fn : {"operation"}, kind : {"scale", "norm"}, sample : OperationSamples]

\* operation.initialize(sample), then operation.inverse(operation(v)) for
\* the rows v of the sample
RoundTrip ==
    /\ ppc = "start" /\ pin.fn = "operation"
    /\ pout' = <<operation_round_trip(pin.kind, pin.sample)>>
    /\ ppc' = "done"
    /\ UNCHANGED <<pin, rin, rout, rpc, evars, uvars>>

\* ---- the non_linear switch, camb.py 116-139
\* the switch values tried, the names camb's Halofit.set_params takes after
\* self (getfullargspec(...).args[1:]), and the extra parameters of a caller
NonLinearValues == {"", "mead", "hmcode", "halofit", "takahashi"}

SetParamsArgs == {"halofit_version", "HMCode_A_baryon", "HMCode_eta_baryon", "HMCode_logT_AGN"}

ExtraNames == {"halofit_version", "HMCode_A_baryon", "kmax"}

ExtraValues == {"u", "w"}

\* camb.py 122-127
halofit_version(non_linear) ==
    IF non_linear \in {"mead", "hmcode"} THEN "mead"
    ELSE IF non_linear = "halofit" THEN "original"
    ELSE non_linear

\* camb.py 130: the parameters popped for the model
Captured_none(params) == [kk \in {} |-> kk]

Captured(params) == [kk \in SetParamsArgs \cap DOMAIN params |-> params[kk]]

\* camb.py 132: all_params.setdefault('lens_potential_accuracy', 1)
setdefault(params, doLens) ==
    IF doLens /\ "lens_potential_accuracy" \notin DOMAIN params
    THEN DictUnion(params, [k \in {"lens_potential_accuracy"} |-> "1"])
    ELSE params

\* camb.py 116-139: the arguments of NonLinearModel.set_params (none when no
\* model is configured) and of camb.set_params
non_linear_params(params) ==
    IF params["non_linear"] = ""
    THEN [model |-> <<>>, solver |-> [k \in DOMAIN params \ {"non_linear"} |-> params[k]]]
    ELSE [model |-> <<DictUnion([k \in {"halofit_version"} |->
                                    halofit_version(params["non_linear"])],
                                Captured([k \in DOMAIN params \ {"non_linear"} |-> params[k]]))>>,
          solver |-> setdefault([k \in DOMAIN params \ ({"non_linear"}
                                     \cup DOMAIN Captured([x \in DOMAIN params \ {"non_linear"} |-> params[x]]))
                                   |-> params[k]],
                                params["Want_CMB_lensing"] = "True")]

NonLinearInputs ==
    [fn : {"non_linear"}, non_linear : NonLinearValues,
     extra_params : Mappings(ExtraNames, ExtraValues), Want_CMB_lensing : {"True", "False"}]

\* CambEngine.__init__ configures the non-linear model
SetNonLinear ==
    /\ ppc = "start" /\ pin.fn = "non_linear"
    /\ pout' = <<non_linear_params(all_params(pin.extra_params,
                     [k \in {"non_linear", "Want_CMB_lensing"} |->
                         IF k = "non_linear" THEN pin.non_linear ELSE pin.Want_CMB_lensing]))>>
    /\ ppc' = "done"
    /\ UNCHANGED <<pin, rin, rout, rpc, evars, uvars>>

\* ---- Fourier.table for every 'of', camb.py 637-735
\* A table is the set of its terms: the spectrum of two CAMB variables that
\* get_linear_matter_power_spectrum returned, the weight it enters with, how
\* often it was multiplied by _rsigma8**2, by 2 and by a power of k.
OfNames == {"delta_m", "delta_cb", "theta_cdm", "theta_b", "phi_plus_psi", "theta_cb"}

\* 'of' as a caller gives it: a name, or a tuple of one or two names
OfInputs ==
    [isList : {FALSE}, name : OfNames, items : {<<>>}]
    \cup [isList : {TRUE}, name : {""}, items : SeqsUpTo(OfNames, 2) \ {<<>>}]

\* camb.py 637-641
_make_tuple(of) ==
    IF ~of.isList THEN <<of.name, of.name>>
    ELSE IF Len(of.items) = 1 THEN <<of.items[1], of.items[1]>>
    ELSE of.items

\* camb.py 647-649
_index_pk_of(of) ==
    CASE of = "delta_m" -> "delta_tot"
      [] of = "delta_cb" -> "delta_nonu"
      [] of = "theta_cdm" -> "v_newtonian_cdm"
      [] of = "theta_b" -> "v_newtonian_baryon"
      [] of = "phi_plus_psi" -> "Weyl"

\* camb.py 710-712: the density fractions of cold dark matter and baryons
density_fractions_unnormalised(Omega_cdm, Omega_b) == <<<<Omega_cdm, 1>>, <<Omega_b, 1>>>>

density_fractions(Omega_cdm, Omega_b) ==
    <<Frac(Omega_cdm, Omega_cdm + Omega_b), Frac(Omega_b, Omega_cdm + Omega_b)>>

Weighted(w, terms) == {[t EXCEPT !.coef = RatMul(w, @)] : t \in terms}

\* camb.py 707-735: the loop over the entries of 'of' from entry iof on, with
\* the factors collected so far
RECURSIVE table_loop(_, _, _, _, _)
table_loop(of, iof, twos, kpow, Omegas) ==
    IF iof > Len(of)
    THEN {[vars |-> <<_index_pk_of(of[1]), _index_pk_of(of[2])>>, coef |-> One,
           rsigma8 |-> 1, twos |-> twos, kpow |-> kpow]}
    ELSE IF of[iof] = "theta_cb"
    THEN Weighted(density_fractions(Omegas[1], Omegas[2])[1],
                  table_loop([of EXCEPT ![iof] = "theta_cdm"], 1, 0, 0, Omegas))
         \cup Weighted(density_fractions(Omegas[1], Omegas[2])[2],
                       table_loop([of EXCEPT ![iof] = "theta_b"], 1, 0, 0, Omegas))
    ELSE IF of[iof] = "phi_plus_psi"
    THEN table_loop(of, iof + 1, twos + 1, kpow - 2, Omegas)
    ELSE table_loop(of, iof + 1, twos, kpow, Omegas)

\* Fourier.table(of=of) of an engine with these densities
table_of(of, Omegas) == table_loop(_make_tuple(of), 1, 0, 0, Omegas)

TableInputs ==
    [fn : {"table"}, of : OfInputs, Omegas : (1..MaxOmega) \X (1..MaxOmega)]

\* fo.table(of=of)
TableOf ==
    /\ ppc = "start" /\ pin.fn = "table"
    /\ pout' = <<table_of(pin.of, pin.Omegas)>>
    /\ ppc' = "done"
    /\ UNCHANGED <<pin, rin, rout, rpc, evars, uvars>>

\* ---- Emulator._sort_varied_fixed on one column, base.py 190-215
\* base.py 347, 359: subsample = min(samples.size, 10)
subsample == 10

\* base.py 201-205: rng.choice(size, subsample, replace=False) of a
\* RandomState seeded with 42: the rows it may select
Subsamples(size) ==
    {S \in SUBSET (1..size) : Cardinality(S) = IF size < subsample THEN size ELSE subsample}

\* base.py 206-214 for one name: values[index] are compared with the first
\* of them; the name is fixed, with that value, when they are all equal
sort_varied_fixed(values, index) ==
    [fixed |-> \A r \in index : \A q \in index : values[r] = values[q],
     value |-> values[CHOOSE r \in index : TRUE]]

\* the columns of an output: the same value in all rows, or in all rows
\* but one
SortColumns(size) == {[r \in 1..size |-> IF r = j THEN 1 ELSE 0] : j \in 0..size}

SortInputs ==
    UNION {[fn : {"sort"}, values : SortColumns(size), index : Subsamples(size)] :
              size \in 1..MaxSize}

\* _sort_varied_fixed(samples, subsample=min(samples.size, 10))
SortVariedFixed ==
    /\ ppc = "start" /\ pin.fn = "sort"
    /\ pout' = <<sort_varied_fixed(pin.values, pin.index)>>
    /\ ppc' = "done"
    /\ UNCHANGED <<pin, rin, rout, rpc, evars, uvars>>

FunctionInputs ==
    MergeInputs \cup NeutrinoInputs \cup DistanceInputs \cup ArrayInputs \cup OperationInputs
        \cup NonLinearInputs \cup TableInputs \cup SortInputs

\* CambEngine.__init__ merges the translated parameters and extra_params
MergeParams ==
    /\ ppc = "start" /\ pin.fn = "all_params"
    /\ pout' = <<all_params(pin.extra_params, pin.base_params)>>
    /\ ppc' = "done"
    /\ UNCHANGED <<pin, rin, rout, rpc, evars, uvars>>

FunctionInit ==
    /\ EngineInit
    /\ rin = Name("fourier") /\ rout = <<>> /\ rpc = "idle"
    /\ pin \in FunctionInputs
    /\ pout = <<>>
    /\ ppc = "start"
    /\ EmulatorIdle

FunctionNext ==
    \/ MergeParams
    \/ SetNeutrinos
    \/ Distance2
    \/ CallBackground
    \/ RoundTrip
    \/ SetNonLinear
    \/ TableOf
    \/ SortVariedFixed

FunctionSpec == FunctionInit /\ [][FunctionNext]_vars

\* ------------------------------------------- the resolver on its own
\* rout collects the sets of names of the lists returned so far
ResolverInit ==
    /\ EngineInit
    /\ rin \in TaskInputs
    /\ rout = <<>>
    /\ rpc = "start"
    /\ FunctionIdle

\* _build_task_dependency(rin)
Resolve ==
    /\ rpc = "start"
    /\ rout' = <<_build_task_dependency(rin)>>
    /\ rpc' = "resolved"
    /\ UNCHANGED <<rin, evars, pvars>>

\* the returned list, in whatever order list(set) produced it, resolved again
ResolveAgain ==
    /\ rpc = "resolved"
    /\ \E l \in ListsOf(rout[1]) :
           rout' = Append(rout, _build_task_dependency(ListInput(l)))
    /\ rpc' = "again"
    /\ UNCHANGED <<rin, evars, pvars>>

ResolverNext == Resolve \/ ResolveAgain

ResolverSpec == ResolverInit /\ [][ResolverNext]_vars

\* ------------------------------------------- the emulator (emulators/tools/base.py)
\* A calculator output or parameter value is a term: a base value and the
\* operations applied to it that have not been undone, oldest first.  An
\* operation and its inverse cancel only when they are the same expression
\* with the same constants, so that a chain of inverses returns the base
\* value exactly when it undoes the forward chain.
Outputs == {"y", "z"}

Params == {"a"}

Term(b) == [base |-> b, ops |-> <<>>]

EmptyDict == [k \in {} |-> k]

Put(d, k, v) == [x \in DOMAIN d \cup {k} |-> IF x = k THEN v ELSE d[x]]

Drop(d, K) == [x \in DOMAIN d \ K |-> d[x]]

\* an operation object: its registry name, its expression, the keys of the
\* dictionary the expression reads and replaces (none for an expression on
\* arrays), its _locals (<<>> while not set), its input_type attribute
\* ("none" when it is None or the object has none) and how often its
\* constants were fitted
OperationObj(name, direct, keys, input_type) ==
    [name |-> name, direct |-> direct, keys |-> keys, locals |-> <<>>,
     input_type |-> input_type, fitted |-> 0]

\* what an application of the operation leaves on a term
Applied(op, inv) == [direct |-> op.direct, locals |-> op.locals, inv |-> inv]

Cancels(t, e) ==
    /\ t.ops # <<>>
    /\ t.ops[Len(t.ops)] = [e EXCEPT !.inv = ~e.inv]

Push(t, e) ==
    IF Cancels(t, e) THEN [t EXCEPT !.ops = SubSeq(@, 1, Len(@) - 1)]
    ELSE [t EXCEPT !.ops = Append(@, e)]

\* utils.evaluate(self._direct, ...) and utils.evaluate(self._inverse, ...)
\* on one value
Direct(op, v) == Push(v, Applied(op, FALSE))

Inverse(op, v) == Push(v, Applied(op, TRUE))

\* Operation.initialize is empty; ScaleOperation.initialize keeps limits
\* that are set; NormOperation.initialize computes mean and sigma anew.  The
\* constants stand for the sample they were computed from.
initialize(op, sample) ==
    CASE op.name = "base" -> op
      [] op.name = "scale" ->
            IF op.locals # <<>> THEN op
            ELSE [op EXCEPT !.locals = <<sample>>, !.fitted = @ + 1]
      [] op.name = "norm" -> [op EXCEPT !.locals = <<sample>>, !.fitted = @ + 1]

\* the part of a dictionary of columns the operation's constants come from
Calibration(op, d) == [k \in op.keys \cap DOMAIN d |-> d[k]]

\* vmap of the operation over the rows of a dictionary of columns
CallOnDict(op, d) ==
    [k \in DOMAIN d |->
        IF k \in op.keys THEN [r \in DOMAIN d[k] |-> Direct(op, d[k][r])] ELSE d[k]]

\* the operation reads a key the dictionary does not have
KeyError(op, d) == ~(op.keys \subseteq DOMAIN d)

\* ---- Emulator._sort_varied_fixed and _get_X_Y_from_samples
\* A column holds one term per sample row; Samples hold the columns X.* and
\* Y.* by name.
ColumnOf(bases) == [r \in DOMAIN bases |-> Term(bases[r])]

\* a value that is not finite, and remains so under every operation
nan == [base |-> -1, ops |-> <<>>]

\* np.isfinite(column).all()
isfinite(column) == \A r \in DOMAIN column : column[r].base # nan.base

\* the columns of an output: finite values, or a first row that is not finite
Columns ==
    {ColumnOf(b) : b \in [1..NRows -> 0..MaxBase]}
    \cup {[r \in 1..NRows |-> IF r = 1 THEN nan ELSE Term(0)]}

\* the samples a caller can hand over: every parameter, some of the outputs
SamplesSet ==
    UNION {[X : [Params -> {ColumnOf([r \in 1..NRows |-> r - 1])}], Y : [names -> Columns]] :
              names \in (SUBSET Outputs) \ {{}}}

\* base.py 208: all(utils.deep_eq(value, values[0]) for value in values)
eq(values) == \A r \in DOMAIN values : values[r] = values[1]

\* base.py 190-215: the names whose values differ, and the first value of
\* those whose values do not; with at most 10 rows every row is looked at
varied_of(samples) == {name \in DOMAIN samples : ~eq(samples[name])}

fixed_of(samples) ==
    [name \in {n \in DOMAIN samples : eq(samples[n])} |-> samples[name][1]]

\* fixed | Y_varied as batch_vmap sees it: the fixed values in every row
Rowwise(fixed, Y_varied) ==
    DictUnion([name \in DOMAIN fixed |-> [r \in 1..NRows |-> fixed[name]]], Y_varied)

\* base.py 267-273: every y-operation is initialised on, and applied to,
\* fixed | Y_varied; Y is what the operation applied last returned; a
\* KeyError skips the operation
RECURSIVE YLoop(_, _, _, _)
YLoop(ops, i, src, Y) ==
    IF i > Len(ops) THEN [ops |-> ops, out |-> Y]
    ELSE IF KeyError(ops[i], src) THEN YLoop(ops, i + 1, src, Y)
    ELSE YLoop([ops EXCEPT ![i] = initialize(@, Calibration(@, src))], i + 1, src,
               CallOnDict(initialize(ops[i], Calibration(ops[i], src)), src))

\* base.py 274-279: every x-operation is initialised on, and applied to, the
\* X the operation before it returned
RECURSIVE XLoop(_, _, _)
XLoop(ops, i, X) ==
    IF i > Len(ops) THEN [ops |-> ops, out |-> X]
    ELSE IF KeyError(ops[i], X) THEN XLoop(ops, i + 1, X)
    ELSE XLoop([ops EXCEPT ![i] = initialize(@, Calibration(@, X))], i + 1,
               CallOnDict(initialize(ops[i], Calibration(ops[i], X)), X))

\* base.py 254-281, with params and varied given: X, Y without the fixed
\* names, and the operations as initialize left them
_get_X_Y_from_samples(e, samples, varied, fixed) ==
    [X |-> XLoop(e.xoperations, 1, samples.X).out,
     Y |-> Drop(YLoop(e.yoperations, 1,
                      Rowwise(fixed, [name \in varied |-> samples.Y[name]]),
                      Rowwise(fixed, [name \in varied |-> samples.Y[name]])).out,
                DOMAIN fixed),
     xoperations |-> XLoop(e.xoperations, 1, samples.X).ops,
     yoperations |-> YLoop(e.yoperations, 1,
                           Rowwise(fixed, [name \in varied |-> samples.Y[name]]),
                           Rowwise(fixed, [name \in varied |-> samples.Y[name]])).ops]

\* ---- the engines
\* a PointEmulatorEngine: params is empty until initialize, point until fit
EngineObj(xoperations, yoperations) ==
    [name |-> "point", params |-> <<>>, xoperations |-> xoperations,
     yoperations |-> yoperations, point |-> <<>>, err |-> NoErr]

\* base.py 545-547
engine_initialize(engine) == [engine EXCEPT !.params = <<"a">>]

\* base.py 561-562, 579-580: X is made a dictionary only for an operation
\* whose input_type is 'dict'; an expression that reads keys fails on an
\* array, and one on arrays fails on a dictionary
WrongInput(op) == (op.keys # {}) # (op.input_type = "dict")

\* base.py 556-559: every y-operation of the engine is initialised on, and
\* applied to, what the operation before it returned
RECURSIVE EngineYLoop(_, _, _)
EngineYLoop(ops, i, Y) ==
    IF i > Len(ops) THEN [ops |-> ops, out |-> Y]
    ELSE EngineYLoop([ops EXCEPT ![i] = initialize(@, [k \in {"v"} |-> Y])], i + 1,
                     [r \in DOMAIN Y |-> Direct(initialize(ops[i], [k \in {"v"} |-> Y]), Y[r])])

\* base.py 560-566: the x-operations of the engine are initialised on X
RECURSIVE EngineXLoop(_, _, _)
EngineXLoop(ops, i, X) ==
    IF i > Len(ops) THEN ops
    ELSE EngineXLoop([ops EXCEPT ![i] = initialize(@, X)], i + 1, X)

\* base.py 552-570 and 643-644: the point is the first row of the
\* transformed Y
engine_fit(engine, X, Y) ==
    IF \E i \in DOMAIN engine.xoperations : WrongInput(engine.xoperations[i])
    THEN [engine EXCEPT !.err = "TypeError"]
    ELSE [engine EXCEPT !.yoperations = EngineYLoop(engine.yoperations, 1, Y).ops,
                        !.xoperations = EngineXLoop(engine.xoperations, 1, X),
                        !.point = <<EngineYLoop(engine.yoperations, 1, Y).out[1]>>]

\* the inverses of ops[i], ..., ops[1], in this order
RECURSIVE InverseChain(_, _, _)
InverseChain(ops, i, v) ==
    IF i = 0 THEN v ELSE InverseChain(ops, i - 1, Inverse(ops[i], v))

\* base.py 576-588 and 646-648
engine_predict(engine, params) ==
    IF engine.point = <<>> THEN [err |-> "AttributeError", Y |-> Term(0)]
    ELSE IF \E i \in DOMAIN engine.xoperations : WrongInput(engine.xoperations[i])
    THEN [err |-> "TypeError", Y |-> Term(0)]
    ELSE [err |-> NoErr,
          Y |-> InverseChain(engine.yoperations, Len(engine.yoperations), engine.point[1])]

\* ---- Emulator.set_samples, fit and predict, as rank 0 runs them
\* base.py 368-379: self.fixed is updated, and every varied name is given
\* the samples and an initialised engine
Register(e, r, varied, fixed) ==
    [e EXCEPT !.xoperations = r.xoperations,
              !.yoperations = r.yoperations,
              !.fixed = DictUnion(@, fixed),
              !.samples_operations = DictUnion(@, [name \in varied |-> [X |-> r.X, Y |-> r.Y]]),
              !.init_engines = DictUnion(@, [name \in varied |-> engine_initialize(e.input_engine)])]

\* base.py 358-363: with y-operations the outputs are sorted again, as the
\* operations returned them
Sorted(e, r, varied, fixed) ==
    IF e.yoperations # <<>>
    THEN Register(e, r, varied_of(r.Y), DictUnion(fixed, fixed_of(r.Y)))
    ELSE Register(e, r, varied, fixed)

\* base.py 269 and 795, 819: ScaleOperation.initialize and
\* NormOperation.initialize take no X, so that as y-operations of the
\* emulator they raise TypeError, which the except KeyError does not catch
InitializeRaises(e) ==
    \E i \in DOMAIN e.yoperations : e.yoperations[i].name \in {"scale", "norm"}

\* base.py 340-379: set_samples(samples=samples)
set_samples(e, samples) ==
    IF InitializeRaises(e) THEN e ELSE
    Sorted(e, _get_X_Y_from_samples(e, samples, varied_of(samples.Y), fixed_of(samples.Y)),
           varied_of(samples.Y), fixed_of(samples.Y))

\* base.py 637-641: the samples of the calculator on the grid of parameter
\* values
get_default_samples(calculator) ==
    [X |-> [p \in Params |-> ColumnOf([r \in 1..NRows |-> r - 1])],
     Y |-> [name \in Outputs |-> ColumnOf([r \in 1..NRows |-> calculator[r - 1][name]])]]

\* base.py 326-338, 351-379: set_samples() of an emulator with a calculator
set_samples_calculator(e) ==
    IF e.calculator = <<>> \/ InitializeRaises(e) THEN e
    ELSE Sorted(e, _get_X_Y_from_samples(e, get_default_samples(e.calculator[1]), e.varied, e.cfixed),
                e.varied, e.cfixed)

\* base.py 426-430: the names that have samples, in the order of the
\* dictionary, here y before z
FitNames(e) == SelectSeq(<<"y", "z">>, LAMBDA name : name \in DOMAIN e.samples_operations)

\* base.py 414-424 and 435: what fitting the output raises: ValueError when
\* its Y is not finite, else what engine.fit raises
fit_raises(e, name) ==
    IF ~isfinite(e.samples_operations[name].Y[name]) THEN "ValueError"
    ELSE engine_fit(e.init_engines[name], e.samples_operations[name].X,
                    e.samples_operations[name].Y[name]).err

\* base.py 431-435: the copy of the stored engine is put in self.engines,
\* then _get_X_Y checks the samples, then the copy is fitted; an exception
\* ends the loop
RECURSIVE fit_loop(_, _, _)
fit_loop(e, names, i) ==
    IF i > Len(names) THEN e
    ELSE IF fit_raises(e, names[i]) = "ValueError"
    THEN [e EXCEPT !.engines = DictUnion(@, [name \in {names[i]} |-> e.init_engines[names[i]]])]
    ELSE IF fit_raises(e, names[i]) # NoErr
    THEN [e EXCEPT !.engines =
             DictUnion(@, [name \in {names[i]} |->
                              engine_fit(e.init_engines[names[i]],
                                         e.samples_operations[names[i]].X,
                                         e.samples_operations[names[i]].Y[names[i]])])]
    ELSE fit_loop([e EXCEPT !.engines =
                      DictUnion(@, [name \in {names[i]} |->
                                       engine_fit(e.init_engines[names[i]],
                                                  e.samples_operations[names[i]].X,
                                                  e.samples_operations[names[i]].Y[names[i]])])],
                  names, i + 1)

\* the exception Emulator.fit ends with
RECURSIVE fit_error(_, _, _)
fit_error(e, names, i) ==
    IF i > Len(names) THEN NoErr
    ELSE IF fit_raises(e, names[i]) # NoErr THEN fit_raises(e, names[i])
    ELSE fit_error(e, names, i + 1)

\* the copy that is fitted shares its operations with the stored engine
fit_shares_operations(e) ==
    [e EXCEPT !.engines =
        DictUnion(@, [name \in DOMAIN e.samples_operations |->
                         engine_fit(e.init_engines[name],
                                    e.samples_operations[name].X,
                                    e.samples_operations[name].Y[name])]),
              !.init_engines =
        DictUnion(@, [name \in DOMAIN e.samples_operations |->
                         [e.init_engines[name] EXCEPT
                             !.xoperations = engine_fit(e.init_engines[name],
                                                        e.samples_operations[name].X,
                                                        e.samples_operations[name].Y[name]).xoperations,
                             !.yoperations = engine_fit(e.init_engines[name],
                                                        e.samples_operations[name].X,
                                                        e.samples_operations[name].Y[name]).yoperations]])]

\* the stored engine is fitted itself, not a copy of it
fit_in_place(e) ==
    [e EXCEPT !.engines =
        DictUnion(@, [name \in DOMAIN e.samples_operations |->
                         engine_fit(e.init_engines[name],
                                    e.samples_operations[name].X,
                                    e.samples_operations[name].Y[name])]),
              !.init_engines =
        DictUnion(@, [name \in DOMAIN e.samples_operations |->
                         engine_fit(e.init_engines[name],
                                    e.samples_operations[name].X,
                                    e.samples_operations[name].Y[name])])]

\* base.py 426-435: every name with samples gets a copy of its initialised
\* engine, fitted to the samples after the operations
fit(e) == fit_loop(e, FitNames(e), 1)

\* Operation.inverse on the dictionary predict
InverseOnDict(op, d) ==
    [k \in DOMAIN d |-> IF k \in op.keys THEN Inverse(op, d[k]) ELSE d[k]]

\* base.py 446-447: the inverses of the y-operations, last operation first;
\* a KeyError is not caught
RECURSIVE InverseLoop(_, _, _)
InverseLoop(ops, i, res) ==
    IF i = 0 \/ res.err # NoErr THEN res
    ELSE IF KeyError(ops[i], res.out) THEN [res EXCEPT !.err = "KeyError"]
    ELSE InverseLoop(ops, i - 1, [res EXCEPT !.out = InverseOnDict(ops[i], @)])

\* the first exception of the engines asked
EngineError(e, params) ==
    IF \A name \in DOMAIN e.engines : engine_predict(e.engines[name], params).err = NoErr
    THEN NoErr
    ELSE engine_predict(e.engines[CHOOSE name \in DOMAIN e.engines :
                                      engine_predict(e.engines[name], params).err # NoErr],
                        params).err

\* base.py 437-448: predict({'a': a}); asked lists the engines queried
predict(e, a) ==
    InverseLoop(e.yoperations, Len(e.yoperations),
                [err |-> EngineError(e, [p \in Params |-> Term(a)]),
                 asked |-> DOMAIN e.engines,
                 out |-> DictUnion(e.fixed,
                                   [name \in DOMAIN e.engines |->
                                       engine_predict(e.engines[name], [p \in Params |-> Term(a)]).Y])])

\* ---- Emulator.__init__ and _get_calculator
\* base.py 228: classify_varied(niterations=3, ...)
niterations == 3

\* a calculator gives every output a value at every parameter value
Calculators == [0..NRows - 1 -> [Outputs -> 0..MaxBase]]

\* the parameter values of the probe draws
Draws == [1..niterations -> 0..NRows - 1]

\* base.py 229-234: the outputs of the calculator at the draws, by name
state_of(calculator, draws) ==
    [name \in Outputs |-> [i \in 1..niterations |-> Term(calculator[draws[i]][name])]]

\* the operations and the engine an emulator is made with: operations of the
\* emulator on dictionaries, or operations of the engine on arrays (an
\* engine x-operation may ask for a dictionary)
XOps == {OperationObj("base", "fx", {"a"}, "none")}

YOps == {OperationObj("base", "f", {"y"}, "none"),
         OperationObj("base", "h", {"y", "z"}, "none"),
         OperationObj("norm", "(v - mean) / sigma", {"y"}, "none")}

EngineXOps == {OperationObj("base", "q", {}, "none"),
               OperationObj("base", "d", {"a"}, "dict")}

EngineYOps == {OperationObj("base", "p", {}, "none"),
               OperationObj("norm", "(v - mean) / sigma", {}, "none")}

Configs ==
    [xoperations : SeqsUpTo(XOps, 1), yoperations : SeqsUpTo(YOps, MaxOps),
     engine : {EngineObj(<<>>, <<>>)}]
    \cup [xoperations : {<<>>}, yoperations : {<<>>},
          engine : {EngineObj(x, y) : x \in SeqsUpTo(EngineXOps, 1),
                                      y \in SeqsUpTo(EngineYOps, MaxOps)}]

\* base.py 152-159: a new emulator; calculator is <<>> or <<the calculator>>
EmulatorObj(config, calculator, varied, cfixed) ==
    [xoperations |-> config.xoperations, yoperations |-> config.yoperations,
     input_engine |-> config.engine, engines |-> EmptyDict, init_engines |-> EmptyDict,
     samples_operations |-> EmptyDict, fixed |-> EmptyDict,
     defaults |-> IF calculator = <<>> THEN EmptyDict ELSE [p \in Params |-> Term(0)],
     calculator |-> calculator, varied |-> varied, cfixed |-> cfixed, loaded |-> FALSE]

\* base.py 160-161 and 217-249: Emulator(calculator, ...); a calculator
\* without a varied output is rejected
_get_calculator(config, calculator, draws) ==
    IF varied_of(state_of(calculator, draws)) = {}
    THEN [pc |-> "raised", err |-> "ValueError"]
    ELSE [pc |-> "made", err |-> NoErr, calls |-> 0,
          e |-> EmulatorObj(config, <<calculator>>, varied_of(state_of(calculator, draws)),
                            fixed_of(state_of(calculator, draws)))]

\* ---- __getstate__ and __setstate__
\* base.py 743-744: name, _direct, _inverse and _locals
Operation__getstate__(op) ==
    [name |-> op.name, direct |-> op.direct, keys |-> op.keys, locals |-> op.locals]

\* base.py 752-759: the object has the attributes of the state and no other
Operation_from_state(s) ==
    [name |-> s.name, direct |-> s.direct, keys |-> s.keys, locals |-> s.locals,
     input_type |-> "none", fitted |-> 0]

OperationStates(ops) == [i \in DOMAIN ops |-> Operation__getstate__(ops[i])]

OperationsFromStates(states) == [i \in DOMAIN states |-> Operation_from_state(states[i])]

\* base.py 593-603 and 650-655
Engine__getstate__(engine) ==
    [name |-> engine.name, params |-> engine.params, point |-> engine.point,
     xoperations |-> OperationStates(engine.xoperations),
     yoperations |-> OperationStates(engine.yoperations)]

\* base.py 605-619
Engine_from_state(s) ==
    [name |-> s.name, params |-> s.params, point |-> s.point,
     xoperations |-> OperationsFromStates(s.xoperations),
     yoperations |-> OperationsFromStates(s.yoperations), err |-> NoErr]

\* base.py 458-469
__getstate__(e) ==
    [engines |-> [name \in DOMAIN e.engines |-> Engine__getstate__(e.engines[name])],
     xoperations |-> OperationStates(e.xoperations),
     yoperations |-> OperationStates(e.yoperations),
     defaults |-> e.defaults, fixed |-> e.fixed]

\* base.py 482-489: the emulator rebuilt from a state has what the state
\* holds, and neither calculator nor samples nor input engines
__setstate__(s) ==
    [xoperations |-> OperationsFromStates(s.xoperations),
     yoperations |-> OperationsFromStates(s.yoperations),
     input_engine |-> EngineObj(<<>>, <<>>),
     engines |-> [name \in DOMAIN s.engines |-> Engine_from_state(s.engines[name])],
     init_engines |-> EmptyDict, samples_operations |-> EmptyDict, fixed |-> s.fixed,
     defaults |-> s.defaults, calculator |-> <<>>, varied |-> {}, cfixed |-> EmptyDict,
     loaded |-> TRUE]

\* ---- the calls on one emulator, one at a time
Made == emu.pc = "made"

\* Emulator(engine=..., xoperation=..., yoperation=...), with or without a
\* calculator
NewEmulator ==
    /\ emu.pc = "idle"
    /\ mpi.pc = "idle"
    /\ \/ \E config \in Configs :
             emu' = [pc |-> "made", err |-> NoErr, calls |-> 0,
                     e |-> EmulatorObj(config, <<>>, {}, EmptyDict)]
       \/ \E config \in Configs, calculator \in Calculators, draws \in Draws :
             /\ config.engine = EngineObj(<<>>, <<>>)
             /\ Len(config.yoperations) <= 1
             /\ emu' = _get_calculator(config, calculator, draws)
    /\ UNCHANGED <<evars, rin, rout, rpc, pin, pout, ppc, mpi>>

\* emulator.set_samples(samples=samples) of an emulator made without a
\* calculator
SetSamples ==
    /\ Made /\ ~emu.e.loaded /\ emu.calls < MaxCalls
    /\ emu.e.calculator = <<>>
    /\ \E samples \in SamplesSet :
          emu' = [emu EXCEPT !.e = set_samples(@, samples), !.calls = @ + 1,
                             !.err = IF InitializeRaises(emu.e) THEN "TypeError" ELSE NoErr]
    /\ UNCHANGED <<evars, rin, rout, rpc, pin, pout, ppc, mpi>>

\* emulator.set_samples() of an emulator made with a calculator
SetSamplesCalculator ==
    /\ Made /\ ~emu.e.loaded /\ emu.calls < MaxCalls
    /\ emu.e.calculator # <<>>
    /\ emu' = [emu EXCEPT !.e = set_samples_calculator(@), !.calls = @ + 1,
                           !.err = IF InitializeRaises(emu.e) THEN "TypeError" ELSE NoErr]
    /\ UNCHANGED <<evars, rin, rout, rpc, pin, pout, ppc, mpi>>

\* emulator.fit()
Fit ==
    /\ Made /\ ~emu.e.loaded /\ emu.calls < MaxCalls
    /\ DOMAIN emu.e.samples_operations # {}
    /\ emu' = [emu EXCEPT !.e = fit(@), !.calls = @ + 1,
                           !.err = fit_error(emu.e, FitNames(emu.e), 1)]
    /\ UNCHANGED <<evars, rin, rout, rpc, pin, pout, ppc, mpi>>

\* emulator.predict({'a': a}) changes nothing
Predict ==
    /\ Made
    /\ \E a \in 0..NRows - 1 : predict(emu.e, a).err \in {NoErr, "KeyError", "TypeError", "AttributeError"}
    /\ UNCHANGED vars

\* emulator = Emulator.from_state(emulator.__getstate__())
Reload ==
    /\ Made /\ ~emu.e.loaded
    /\ emu' = [emu EXCEPT !.e = __setstate__(__getstate__(@))]
    /\ UNCHANGED <<evars, rin, rout, rpc, pin, pout, ppc, mpi>>

EmulatorInit ==
    /\ EngineInit /\ ~lensing /\ ~NonLinear /\ sigma8 = 0
    /\ ResolverIdle

EmulatorNext ==
    \/ NewEmulator
    \/ SetSamples
    \/ SetSamplesCalculator
    \/ Fit
    \/ Predict
    \/ Reload

EmulatorSpec == EmulatorInit /\ [][EmulatorNext]_vars

\* ---- the ranks of one communicator running the same calls
\* Every rank runs Emulator(calculator, samples), set_samples() when the
\* constructor was given no samples, and fit().  A rank is at a broadcast
\* (b and the line of base.py), in a block that only rank 0 runs (r and its
\* first line), or has ended.
Ranks == 0..NRanks - 1

BcastSites == {"b237", "b162", "b326", "b351", "b368", "b420", "b422", "b569", "b644"}

RootBlocks == {"r341", "r354", "r416", "r554"}

\* what the script is run on: whether a calculator is given and whether rank
\* 0 finds a varied output of it, whether rank 0 is given samples, the number
\* of varied outputs, which of X and Y of each output is not finite on rank
\* 0, and the block of rank 0 that raises, if one does
MpiInputs ==
    UNION {[hasCalc : BOOLEAN, calcVaried : BOOLEAN, samplesRoot : BOOLEAN, n : {n},
            finite : [1..n -> {"ok", "X", "Y"}], fault : {"none"} \cup RootBlocks] :
              n \in 1..MaxNames}

\* the value of the condition at a broadcast as rank r computes it from what
\* it holds: the samples are on rank 0 only
Held(r, site, inp, i) ==
    CASE site = "b237" -> inp.calcVaried
      [] site = "b162" -> r = 0 /\ inp.samplesRoot
      [] site = "b326" -> ~(r = 0 /\ inp.samplesRoot)
      [] site = "b351" -> ~(r = 0 /\ (inp.samplesRoot \/ inp.hasCalc))
      [] site = "b420" -> ~(r = 0 /\ inp.finite[i] = "X")
      [] site = "b422" -> ~(r = 0 /\ inp.finite[i] = "Y")
      [] OTHER -> TRUE

\* what a rank branches on after mpicomm.bcast(..., root=0): the value
\* received from rank 0
Decide_own_finiteness(r, site, received, own) ==
    IF site \in {"b420", "b422"} THEN own ELSE received

Decide_own_samples(r, site, received, own) ==
    IF site \in {"b162", "b326", "b351"} THEN own ELSE received

Decide(r, site, received, own) == received

At(site, i) == [at |-> site, i |-> i, err |-> NoErr]

Raise(err, i) == [at |-> "raised", i |-> i, err |-> err]

\* a block of rank 0, which the other ranks pass over
Block(r, blk, then, i) == IF r = 0 THEN At(blk, i) ELSE At(then, i)

\* where rank r goes from a broadcast that decided val
After(r, site, val, inp, i) ==
    CASE site = "b237" -> IF val THEN At("b162", i) ELSE Raise("ValueError", i)
      [] site = "b162" -> At("b326", i)
      [] site = "b326" -> IF val THEN At("b351", i) ELSE Block(r, "r341", "b351", i)
      [] site = "b351" -> IF val THEN Raise("AttributeError", i) ELSE Block(r, "r354", "b368", i)
      [] site = "b368" -> Block(r, "r416", "b420", 1)
      [] site = "b420" -> IF val THEN At("b422", i) ELSE Raise("ValueError", i)
      [] site = "b422" -> IF val THEN Block(r, "r554", "b569", i) ELSE Raise("ValueError", i)
      [] site = "b569" -> At("b644", i)
      [] site = "b644" -> IF i < inp.n THEN Block(r, "r416", "b420", i + 1) ELSE At("done", i)

\* the broadcast that follows a block of rank 0
AfterBlock(blk) ==
    CASE blk = "r341" -> "b351"
      [] blk = "r354" -> "b368"
      [] blk = "r416" -> "b420"
      [] blk = "r554" -> "b569"

Moved(rk, to, site, val) ==
    [at |-> to.at, i |-> to.i, err |-> to.err, trace |-> Append(rk.trace, <<site, rk.i, val>>)]

Ended(rk) == rk.at \in {"done", "raised"}

\* the ranks start the script
MpiStart ==
    /\ mpi.pc = "idle"
    /\ emu.pc = "idle"
    /\ \E inp \in MpiInputs :
          mpi' = [pc |-> "run", inp |-> inp,
                  rank |-> [r \in Ranks |->
                               [at |-> IF inp.hasCalc THEN "b237" ELSE "b162", i |-> 0,
                                err |-> NoErr, trace |-> <<>>]],
                  chan |-> [r \in Ranks \ {0} |-> <<>>]]
    /\ UNCHANGED <<evars, rin, rout, rpc, pin, pout, ppc, emu>>

\* rank 0 in mpicomm.bcast(value, root=0): the value goes to every other
\* rank, and rank 0 goes on
RootBcast ==
    /\ mpi.pc = "run"
    /\ mpi.rank[0].at \in BcastSites
    /\ mpi' = [mpi EXCEPT
                 !.chan = [r \in Ranks \ {0} |->
                              Append(@[r], [site |-> mpi.rank[0].at,
                                            val |-> Held(0, mpi.rank[0].at, mpi.inp, mpi.rank[0].i)])],
                 !.rank[0] = Moved(@, After(0, @.at,
                                            Decide(0, @.at, Held(0, @.at, mpi.inp, @.i),
                                                   Held(0, @.at, mpi.inp, @.i)),
                                            mpi.inp, @.i),
                                   @.at, Decide(0, @.at, Held(0, @.at, mpi.inp, @.i),
                                                Held(0, @.at, mpi.inp, @.i)))]
    /\ UNCHANGED <<evars, rin, rout, rpc, pin, pout, ppc, emu>>

\* another rank in mpicomm.bcast(None, root=0): it waits for the value of
\* rank 0
RankBcast ==
    /\ mpi.pc = "run"
    /\ \E r \in Ranks \ {0} :
          /\ mpi.rank[r].at \in BcastSites
          /\ mpi.chan[r] # <<>>
          /\ mpi' = [mpi EXCEPT
                       !.chan[r] = Tail(@),
                       !.rank[r] = Moved(@, After(r, @.at,
                                                  Decide(r, @.at, Head(mpi.chan[r]).val,
                                                         Held(r, @.at, mpi.inp, @.i)),
                                                  mpi.inp, @.i),
                                         Head(mpi.chan[r]).site,
                                         Decide(r, @.at, Head(mpi.chan[r]).val,
                                                Held(r, @.at, mpi.inp, @.i)))]
    /\ UNCHANGED <<evars, rin, rout, rpc, pin, pout, ppc, emu>>

\* rank 0 in a block of its own: it raises there, or reaches the broadcast
\* that follows
RootBlock ==
    /\ mpi.pc = "run"
    /\ mpi.rank[0].at \in RootBlocks
    /\ mpi' = [mpi EXCEPT
                 !.rank[0] = IF mpi.inp.fault = @.at
                             THEN [@ EXCEPT !.at = "raised", !.err = "Exception"]
                             ELSE [@ EXCEPT !.at = AfterBlock(mpi.rank[0].at)]]
    /\ UNCHANGED <<evars, rin, rout, rpc, pin, pout, ppc, emu>>

MpiNext ==
    \/ MpiStart
    \/ RootBcast
    \/ RankBcast
    \/ RootBlock

MpiSpec == EmulatorInit /\ [][MpiNext]_vars

Init == EngineInit /\ ResolverIdle

\* compute requests and section constructions on one engine, in any order
Next ==
    \/ \E tasks \in ComputeInputs : Compute(tasks)
    \/ \E kind \in Kinds : Construct(kind)
    \/ \E name \in {"lensed_cl", "lens_potential_cl"}, ellmax \in EllMaxes : HarmonicRead(name, ellmax)
    \/ \E name \in {"table", "pk_interpolator"}, non_linear \in BOOLEAN : FourierRead(name, non_linear)

Spec == Init /\ [][Next]_vars

TypeOK ==
    /\ ready \in [Flags -> BOOLEAN]
    /\ \A f \in Flags : handles[f] = NoHandle \/ IsObj(handles[f])

\* ------------------------------------------------------------------ claims
\* C8: _build_task_dependency returns exactly the input's names without
\* 'background' when 'thermodynamics' is among them, plus 'fourier' when
\* 'harmonic' is among them, plus 'transfer' when 'fourier' is then among
\* them; the result depends on the input's set of names only, not on their
\* order, and 'harmonic' resolves to harmonic, fourier and transfer.
C8_Resolved ==
    rpc # "start" =>
        LET S == Requested(rin)
            R == rout[1]
        IN /\ \A x \in Stages :
                x \in R <=> \/ x \in S /\ ~(x = "background" /\ "thermodynamics" \in S)
                            \/ x = "fourier" /\ "harmonic" \in S
                            \/ x = "transfer" /\ ("fourier" \in S \/ "harmonic" \in S)
           /\ R \subseteq Stages
           /\ "harmonic" \in S => {"harmonic", "fourier", "transfer"} \subseteq R

C8_Witness ==
    /\ rpc = "resolved"
    /\ rin = ListInput(<<"harmonic", "background", "thermodynamics">>)
    /\ rout[1] = {"thermodynamics", "harmonic", "fourier", "transfer"}

\* C9: resolving the list returned by _build_task_dependency, whatever its
\* order, returns the same set of names again.
C9_Idempotent == rpc = "again" => rout[2] = rout[1]

C9_Witness ==
    /\ rpc = "again"
    /\ Requested(rin) = {"harmonic"}
    /\ rout[2] = {"harmonic", "fourier", "transfer"}


\* the sum of a vector of fractions
RECURSIVE SumFractions(_)
SumFractions(f) == IF f = <<>> THEN <<0, 1>> ELSE RatAdd(f[1], SumFractions(Tail(f)))

\* C34 as claimed: for one or more species and every mass vector, the
\* fractions handed to the solver are one per species and sum to 1.
C34_FractionsSumToOne ==
    (ppc = "done" /\ pin.fn = "neutrinos" /\ Len(pin.species) >= 1) =>
        /\ Len(pout[1].nu_mass_fractions) = Len(pin.species)
        /\ SumFractions(pout[1].nu_mass_fractions) = One

\* C35 as claimed: an output that is classified as fixed has the same value
\* in every row of the samples.
C35_FixedInEveryRow ==
    (ppc = "done" /\ pin.fn = "sort" /\ pout[1].fixed) =>
        \A r \in DOMAIN pin.values : pin.values[r] = pin.values[1]

\* ---- claims on the engine
\* the request a caller makes for the set S of stage names
Request(S) == ListInput(AsList(S))

\* the same request made again on the engine that run st left behind, its
\* first solver call raising (failAt = 1) or none raising (failAt = 0)
Again(st, tasks, failAt) == compute([st EXCEPT !.ran = <<>>, !.failAt = failAt], tasks)

\* C1: from every reachable state and for every request, when compute(S)
\* succeeds, compute(S) again runs no solver call and changes no ready flag,
\* no handle and no solver object.
C1_SecondIsNoOp ==
    \A tasks \in ComputeInputs : \A st \in ComputeRuns(tasks) :
        st.err = NoErr =>
            \A failAt \in 0..1 :
                LET again == Again(st, tasks, failAt)
                IN /\ again.ran = <<>>
                   /\ again.err = NoErr
                   /\ again.ready = st.ready
                   /\ again.handles = st.handles
                   /\ again.objs = st.objs
                   /\ again.DoLensing = st.DoLensing

\* the state a successful compute(['harmonic', 'lensing']) leaves: lensing
\* switched on, the power spectra solved on the CAMBdata object, and the same
\* request finding nothing left to run
C1_Witness ==
    /\ ready.hr /\ ready.le /\ ready.fo
    /\ handles.fo.by = "CAMBdata" /\ handles.fo = handles.tr
    /\ Obj(handles.fo).pk # 0
    /\ \A st \in ComputeRuns(Request({"harmonic", "lensing"})) : st.ran = <<>>

\* C2: from every reachable state, after a successful compute(S) the flag of
\* every stage named in S is true, also that of background when
\* thermodynamics was requested with it.
C2_RequestedReady ==
    \A tasks \in ComputeInputs : \A st \in ComputeRuns(tasks) :
        st.err = NoErr => \A s \in Requested(tasks) : st.ready[FlagOf(s)]

\* background was set ready by the thermodynamics solve alone
C2_Witness ==
    /\ ready.ba /\ ready.th
    /\ handles.ba = [by |-> "get_background_thermo", n |-> 1]
    /\ objs["get_background"] = <<>>
    /\ "background" \notin _build_task_dependency(Request({"background", "thermodynamics"}))

\* C3: over compute calls, failing ones included, the flags ba, th, tr, hr
\* and le never go from true to false.
C3_Monotone == [][\A f \in {"ba", "th", "tr", "hr", "le"} : ready[f] => ready'[f]]_vars

\* a lensing request failed in its power-spectrum solve after harmonic and
\* transfer were ready: the flags stay set
C3_Witness ==
    /\ ready.tr /\ ready.le /\ ready.hr
    /\ handles.tr.by = "CAMBdata"
    /\ Obj(handles.tr).pk = 0

\* run st leaves fourier not ready, or has called the power-spectrum solve
FourierUndone(st) == ~st.ready.fo \/ "calc_power_spectra" \in Range(st.ran)

FreshEngine == (\A r \in Makers : objs[r] = <<>>) /\ (\A f \in Flags : ~ready[f])

\* C10 as claimed: 'fourier' resolves to background, transfer and fourier, so
\* a successful compute('fourier') on a fresh engine leaves all three ready.
C10_FourierChain ==
    FreshEngine =>
        \A st \in ComputeRuns(Name("fourier")) :
            st.err = NoErr =>
                /\ {"background", "transfer", "fourier"} \subseteq _build_task_dependency(Name("fourier"))
                /\ st.ready.ba /\ st.ready.tr /\ st.ready.fo

\* ---- claims on the sections
\* how many background solves completed, with and without thermodynamics
BackgroundSolves == Len(objs["get_background"]) + Len(objs["get_background_thermo"])

\* C5: once a Background section is constructed, the background flag stays
\* true; constructing a Fourier section from there, with or without a solver
\* fault, keeps it true on the same handle and never calls the background
\* solve; and as long as thermodynamics was not asked for, the background
\* solve has completed exactly once.
C5_BackgroundOnce ==
    /\ [](/\ \A b \in ConstructRuns("background") : b.eng.err = NoErr => b.eng.ready.ba
          /\ held.kind = "background" => ready.ba
          /\ ready.ba =>
                \A f \in ConstructRuns("fourier") :
                    /\ f.eng.ready.ba /\ f.eng.handles.ba = handles.ba
                    /\ "get_background" \notin Range(f.eng.ran)
          /\ (ready.ba /\ ~ready.th) => BackgroundSolves = 1)
    /\ [][ready.ba => ready'.ba]_vars

\* a Fourier section built after a Background section, one background solve
C5_Witness ==
    /\ held.kind = "fourier"
    /\ Len(objs["get_background"]) = 1
    /\ Len(objs["get_transfer_functions"]) = 1
    /\ objs["get_background_thermo"] = <<>> /\ objs["CAMBdata"] = <<>>
    /\ handles.ba = [by |-> "get_background", n |-> 1]
    /\ ready.ba /\ ready.tr /\ ready.fo

\* the section res.sec holds the handle the engine res.eng has for flag f
HoldsHandle(res, f) ==
    /\ res.eng.ready[f]
    /\ res.sec[f] = res.eng.handles[f]
    /\ res.sec[f] # NoHandle

\* the power spectra of the object behind handle f of the section are computed
HasSpectra(res, f) == res.eng.objs[res.sec[f].by][res.sec[f].n].pk # 0

\* C6: when the constructor of a Background, Thermodynamics, Transfer,
\* Harmonic or Fourier section returns, the flag of its stage is true and
\* the section holds the engine's handle of that stage; for Harmonic and
\* Fourier the power spectra behind the handle are computed.
C6_ConstructedReady ==
    \A kind \in Kinds \ {"primordial"} : \A res \in ConstructRuns(kind) :
        res.eng.err = NoErr =>
            /\ res.sec.kind = kind
            /\ kind = "background" => HoldsHandle(res, "ba")
            /\ kind = "thermodynamics" => HoldsHandle(res, "th") /\ HoldsHandle(res, "ba")
            /\ kind = "transfer" => HoldsHandle(res, "tr")
            /\ kind = "harmonic" =>
                  HoldsHandle(res, "hr") /\ HasSpectra(res, "hr") /\ res.eng.ready.fo
            /\ kind = "fourier" => HoldsHandle(res, "fo") /\ HasSpectra(res, "fo")

\* a Harmonic section was constructed and holds the engine's handle
C6_Witness ==
    /\ held.kind = "harmonic"
    /\ held.hr = handles.hr
    /\ held.hr.by = "get_transfer_functions"
    /\ Obj(held.hr).pk # 0
    /\ ready.hr /\ ready.fo

\* the engine's current handles for the stage of the section held
HeldIsCurrent ==
    /\ held.kind = "background" => held.ba = handles.ba
    /\ held.kind = "thermodynamics" => held.th = handles.th /\ held.ba = handles.ba
    /\ held.kind = "transfer" => held.tr = handles.tr
    /\ held.kind = "harmonic" => held.hr = handles.hr
    /\ held.kind = "fourier" => held.fo = handles.fo

C11_AlwaysInputError ==
    /\ \A raises \in SolverErrors : CambEngineInit(raises) = "CosmologyInputError"
    /\ \A tasks \in ComputeInputs : \A st \in ComputeRuns(tasks) :
           st.err \in {NoErr, "CosmologyInputError"}

\* the two lensing requests to the Harmonic section the caller holds
LensingReads(ellmax) == {lensed_cl(held, ellmax), lens_potential_cl(held, ellmax)}

\* the two non-linear requests to the Fourier section the caller holds
NonLinearReads == {table(held, TRUE), pk_interpolator(held, TRUE)}

\* C12 as claimed: a request for a feature that was not computed (lensing
\* spectra from a Harmonic section whose spectra were computed without
\* lensing, the non-linear spectrum from a Fourier section when no non-linear
\* model is configured) fails with CosmologyInputError.
C12_InputErrorKind ==
    /\ (held.kind = "harmonic" /\ ~Obj(held.hr).lensing) =>
           \A ellmax \in EllMaxes : \A r \in LensingReads(ellmax) : r.err = "CosmologyInputError"
    /\ (held.kind = "fourier" /\ ~NonLinear) =>
           \A r \in NonLinearReads : r.err = "CosmologyInputError"

\* C12 amended: such a request fails with camb's CAMBError, raised by the
\* section itself and converted nowhere; a request for a feature that was
\* computed raises nothing.
C12_RawCAMBError ==
    /\ held.kind = "harmonic" =>
           \A ellmax \in EllMaxes : \A r \in LensingReads(ellmax) :
               r.err = IF Obj(held.hr).lensing THEN NoErr ELSE "CAMBError"
    /\ held.kind = "fourier" =>
           /\ \A r \in NonLinearReads : r.err = IF NonLinear THEN NoErr ELSE "CAMBError"
           /\ table(held, FALSE).err = NoErr /\ pk_interpolator(held, FALSE).err = NoErr

\* a Fourier section of an engine without non-linear model is asked for the
\* non-linear spectrum
C12_Witness ==
    /\ held.kind = "fourier" /\ ~NonLinear
    /\ ready.fo /\ IsObj(held.fo)
    /\ pk_interpolator(held, TRUE).err = "CAMBError"

C14_OverlayWins ==
    (ppc = "done" /\ pin.fn = "all_params") =>
        \A k \in DOMAIN pin.extra_params \cap DOMAIN pin.base_params :
            pout[1][k] = pin.extra_params[k]

\* ---- claims on sigma8 rescaling, under Spec
\* the sections whose constructor calls _rescale_sigma8
SigmaKinds == {"primordial", "harmonic", "fourier"}

\* how many times the handler called the routine
CallsOf(st, routine) == Cardinality({i \in DOMAIN st.ran : st.ran[i] = routine})

\* C15: over any sequence of requests, As changes at most once, away from
\* its initial value, and only with a target sigma8 and a non-linear model;
\* in every other configuration the constructor of a Primordial, Harmonic
\* or Fourier section leaves As alone and solves the power spectra at most
\* once, not at all when they are ready and harmonic is not being computed.
C15_AsPatchedOnce ==
    /\ [](\A kind \in SigmaKinds : \A res \in ConstructRuns(kind) :
            /\ res.eng.As # As =>
                  (As = InitialAs /\ sigma8 # 0 /\ NonLinear /\ rsigma8 = None)
            /\ (sigma8 = 0 \/ ~NonLinear) =>
                  /\ res.eng.As = As
                  /\ CallsOf(res.eng, "calc_power_spectra") <= 1
                  /\ (ready.fo /\ kind # "harmonic") =>
                         CallsOf(res.eng, "calc_power_spectra") = 0)
    /\ [][As' # As => (As = InitialAs /\ sigma8 # 0 /\ NonLinear)]_vars

\* the amplitude was patched
C15_Witness ==
    /\ As # InitialAs /\ As = sigma8 * sigma8
    /\ NonLinear /\ rsigma8 # None
    /\ held.kind \in SigmaKinds

\* C16 as claimed: when the constructor of a Primordial, Harmonic or Fourier
\* section takes the non-linear path and returns, the amplitude is the old
\* one times (target / measured)^2, the power spectra were recomputed, and
\* the factor of the engine and of the section is 1.
C16_FactorCollapses ==
    \A kind \in SigmaKinds : \A res \in ConstructRuns(kind) :
        (res.eng.err = NoErr /\ rsigma8 = None /\ sigma8 # 0 /\ NonLinear) =>
            /\ res.eng.As * get_sigma8([pk |-> As]) * get_sigma8([pk |-> As]) = As * sigma8 * sigma8
            /\ CallsOf(res.eng, "calc_power_spectra") >= 1
            /\ res.eng.rsigma8 = One
            /\ res.sec.rsigma8 = One

\* C17 as claimed: for a Fourier section built on a cosmology with target
\* sigma8, sigma8_m and sigma8_z(0) equal the target, with and without a
\* non-linear model.
C17_TargetReached ==
    \A res \in ConstructRuns("fourier") :
        (res.eng.err = NoErr /\ sigma8 # 0) =>
            /\ get_sigma8(res.eng.objs[res.sec.fo.by][res.sec.fo.n]) * res.sec.rsigma8[1]
                  = sigma8 * res.sec.rsigma8[2]
            /\ res.eng.objs[res.sec.fo.by][res.sec.fo.n].pk * res.sec.rsigma8[1] * res.sec.rsigma8[1]
                  = sigma8 * sigma8 * res.sec.rsigma8[2] * res.sec.rsigma8[2]

\* C31 as claimed: in every state, also after a compute call that failed, a
\* stage whose flag is set has its handle assigned, and when harmonic is
\* ready the object behind its handle has its power spectra computed.
C31_ReadyImpliesHandle ==
    /\ \A f \in Flags : ready[f] => IsObj(handles[f])
    /\ ready.hr => (IsObj(handles.hr) /\ Obj(handles.hr).pk # 0)

\* C32 as claimed: in every state where fourier is ready, transfer is ready
\* and the fourier, harmonic and lensing handles are the object behind the
\* engine's transfer handle.
C32_FourierOnTransferHandle ==
    ready.fo =>
        /\ ready.tr
        /\ handles.fo = handles.tr
        /\ handles.hr = handles.tr
        /\ handles.le = handles.tr

\* C33 as claimed: when the constructor of a Primordial, Harmonic or
\* Fourier section fails on an engine that targets sigma8 and has no factor
\* cached, the engine has no factor cached afterwards, so that the next
\* construction measures sigma8.
C33_NoFactorAfterFailure ==
    \A kind \in SigmaKinds : \A res \in ConstructRuns(kind) :
        (sigma8 # 0 /\ rsigma8 = None /\ res.eng.err # NoErr) => res.eng.rsigma8 = None

\* ---- claims on the neutrino convention, under FunctionSpec
\* C18: the fractions handed to the solver are mass over total mass when
\* the total is not zero (1/3 each for three equal masses) and 1/3 each
\* when it is zero; the degeneracy factor of each species is
\* (T_ncdm_over_cmb / (11/4)^(-1/3))^4, which is 1 for the standard ratio.
C18_NeutrinoConvention ==
    (ppc = "done" /\ pin.fn = "neutrinos") =>
        /\ DOMAIN pout[1].nu_mass_fractions = DOMAIN pin.species
        /\ DOMAIN pout[1].nu_mass_degeneracies = DOMAIN pin.species
        /\ \A i \in DOMAIN pin.species :
            /\ SumOf(m_ncdm_of(pin)) # 0 =>
                  /\ pout[1].nu_mass_fractions[i][2] > 0
                  /\ pout[1].nu_mass_fractions[i][1] * SumOf(m_ncdm_of(pin))
                        = pin.species[i].m * pout[1].nu_mass_fractions[i][2]
            /\ (Len(pin.species) = 3 /\ \A j \in 1..3 : pin.species[j].m = pin.species[1].m) =>
                  pout[1].nu_mass_fractions[i] = <<1, 3>>
            /\ SumOf(m_ncdm_of(pin)) = 0 =>
                  pout[1].nu_mass_fractions[i] = <<1, 3>>
            /\ pout[1].nu_mass_degeneracies[i]
                  = RealPow(RealDiv(pin.species[i].T, ElevenFourthsPow(-1)), 4)
            /\ pin.species[i].T = StandardRatio =>
                  pout[1].nu_mass_degeneracies[i] = Real(One, 0)

\* three species of unequal masses and of the standard temperature were
\* translated
C18_Witness ==
    /\ ppc = "done" /\ pin.fn = "neutrinos"
    /\ Len(pin.species) = 3
    /\ m_ncdm_of(pin) = <<1, 2, 1>>
    /\ pout[1].nu_mass_fractions = <<<<1, 4>>, <<1, 2>>, <<1, 4>>>>
    /\ \A i \in 1..3 : pin.species[i].T = StandardRatio
    /\ \A i \in 1..3 : pout[1].nu_mass_degeneracies[i] = Real(One, 0)

\* ---- claims on the Background functions, under FunctionSpec
\* C19: angular_diameter_distance_2 calls only the one-point comoving
\* radial distance of the solver; for K = 0 it returns
\* (chi(z2) - chi(z1)) / (1 + z2) for every pair, and where z2 < z1 it
\* warns and returns that negative value without raising.
C19_FromOnePointDistances ==
    (ppc = "done" /\ pin.fn = "angular_diameter_distance_2") =>
        /\ pout[1].calls \subseteq {"comoving_radial_distance"}
        /\ pout[1].err = NoErr
        /\ DOMAIN pout[1].value = DOMAIN pin.z1
        /\ (\E i \in DOMAIN pin.z1 : pin.z2[i] < pin.z1[i]) => pout[1].warned
        /\ pin.K = 0 =>
              \A i \in DOMAIN pin.z1 :
                  /\ pout[1].value[i][2] > 0
                  /\ pout[1].value[i][1] * (1 + pin.z2[i])
                        = (pin.chi[pin.z2[i]] * pin.h - pin.chi[pin.z1[i]] * pin.h)
                              * pout[1].value[i][2]
                  /\ pin.z2[i] < pin.z1[i] => pout[1].value[i][1] < 0

\* in a flat cosmology a distance to a lower redshift was asked for, with
\* a warning and a negative result
C19_Witness ==
    /\ ppc = "done" /\ pin.fn = "angular_diameter_distance_2"
    /\ pin.K = 0
    /\ Len(pin.z1) = 2
    /\ pin.z2[1] < pin.z1[1] /\ pin.z1[2] < pin.z2[2]
    /\ pout[1].warned
    /\ pout[1].value[1][1] < 0 /\ pout[1].value[2][1] > 0

JustFitted ==
    /\ Made
    /\ ~emu.e.loaded
    /\ DOMAIN emu.e.engines # {}
    /\ fit(emu.e) = emu.e
    /\ fit_error(emu.e, FitNames(emu.e), 1) # "ValueError"

\* C21: on the fit-time forward path every operation receives the output of
\* the operation before it, and predict applies the inverses of the
\* y-operations in reverse order, so that the inverse chain undoes the
\* forward chain: what a freshly fitted emulator predicts for an output is a
\* value of the samples with no operation left on it.
C21_InverseUndoesForward ==
    JustFitted =>
        \A a \in 0..NRows - 1 :
            predict(emu.e, a).err = NoErr =>
                \A name \in DOMAIN emu.e.engines : predict(emu.e, a).out[name].ops = <<>>

\* the outputs an emulator without calculator holds after its first
\* set_samples, as the y-operations left them
FirstSamples ==
    /\ Made
    /\ emu.calls = 1
    /\ emu.e.calculator = <<>>
    /\ DOMAIN emu.e.samples_operations # {}

SamplesY == emu.e.samples_operations[CHOOSE name \in DOMAIN emu.e.samples_operations : TRUE].Y

\* every row of the outputs op reads carries op
TransformedBy(Y, op) ==
    \A name \in op.keys \cap DOMAIN Y : \A r \in DOMAIN Y[name] :
        Applied(op, FALSE) \in Range(Y[name][r].ops)

\* C29: a y-operation that misses a key for one output is skipped for that
\* output only: the outputs of the samples it does apply to are transformed
\* by it (stated for the last operation of the list that reads an output of
\* the samples, whose result no later operation replaces).
C29_SkippedForThatOutputOnly ==
    FirstSamples =>
        \A i \in DOMAIN emu.e.yoperations :
            (/\ emu.e.yoperations[i].keys \cap DOMAIN SamplesY # {}
             /\ \A j \in DOMAIN emu.e.yoperations :
                   j > i => emu.e.yoperations[j].keys \cap DOMAIN SamplesY = {})
                => TransformedBy(SamplesY, emu.e.yoperations[i])

\* C24: a calculator output that is the same at all probe draws is fixed: it
\* has no engine, and predict returns the value stored for it, whatever the
\* parameters; an output that differs is varied.
C24_FixedReturnedVerbatim ==
    (Made /\ emu.e.calculator # <<>>) =>
        /\ DOMAIN emu.e.cfixed \cap emu.e.varied = {}
        /\ DOMAIN emu.e.cfixed \cap DOMAIN emu.e.engines = {}
        /\ JustFitted =>
              \A name \in DOMAIN emu.e.cfixed, a \in 0..NRows - 1 :
                  /\ predict(emu.e, a).err = NoErr
                  /\ predict(emu.e, a).out[name] = emu.e.cfixed[name]

\* C25: the emulator rebuilt by __setstate__ from the state __getstate__
\* returns has the same state and predicts what the original predicts.
C25_RoundTrip ==
    (Made /\ ~emu.e.loaded) =>
        /\ __getstate__(__setstate__(__getstate__(emu.e))) = __getstate__(emu.e)
        /\ \A a \in 0..NRows - 1 :
              predict(__setstate__(__getstate__(emu.e)), a) = predict(emu.e, a)

\* C26: for a ScaleOperation and for a NormOperation initialised on a
\* sample, inverse(direct(v)) is v for every row v of the sample, and direct
\* divides by zero in no column, constant or not.
C26_InverseOfDirect ==
    (ppc = "done" /\ pin.fn = "operation") =>
        \A r \in DOMAIN pin.sample : \A j \in DOMAIN pin.sample[r] :
            /\ ~NotFinite(pout[1].direct[r][j])
            /\ pout[1].back[r][j] = <<pin.sample[r][j], 1>>

Constituents(name) == IF name = "theta_cb" THEN {"theta_cdm", "theta_b"} ELSE {name}

WeightOf(name, part, Omegas) ==
    IF name # "theta_cb" THEN One
    ELSE IF part = "theta_cdm" THEN Frac(Omegas[1], Omegas[1] + Omegas[2])
    ELSE Frac(Omegas[2], Omegas[1] + Omegas[2])

PhiCount(a, b) ==
    (IF a = "phi_plus_psi" THEN 1 ELSE 0) + (IF b = "phi_plus_psi" THEN 1 ELSE 0)

\* C28: for an 'of' with 'theta_cb', Fourier.table is the combination of the
\* tables with theta_cdm and with theta_b in its place, weighted by
\* Omega_cdm / (Omega_cdm + Omega_b) and Omega_b / (Omega_cdm + Omega_b); every
\* spectrum it is made of carries the sigma8 factor once and the factor of
\* phi_plus_psi once for each such entry.
C28_WeightedCombination ==
    (ppc = "done" /\ pin.fn = "table" /\ "theta_cb" \in Range(_make_tuple(pin.of))) =>
        pout[1] = {[vars |-> <<_index_pk_of(a), _index_pk_of(b)>>,
                    coef |-> RatMul(WeightOf(_make_tuple(pin.of)[1], a, pin.Omegas),
                                    WeightOf(_make_tuple(pin.of)[2], b, pin.Omegas)),
                    rsigma8 |-> 1, twos |-> PhiCount(a, b), kpow |-> 0 - 2 * PhiCount(a, b)] :
                      a \in Constituents(_make_tuple(pin.of)[1]),
                      b \in Constituents(_make_tuple(pin.of)[2])}

\* the cross spectrum of phi_plus_psi and theta_cb with unequal densities:
\* two spectra, each with the factor 2 once
C28_Witness ==
    /\ ppc = "done" /\ pin.fn = "table"
    /\ pin.of = ListInput(<<"phi_plus_psi", "theta_cb">>)
    /\ pin.Omegas = <<2, 1>>
    /\ Cardinality(pout[1]) = 2
    /\ \A t \in pout[1] : t.twos = 1 /\ t.rsigma8 = 1

\* the operations of the emulator, of the engines set_samples stored and of
\* the fitted engines
AllOperations(e) ==
    Range(e.xoperations) \cup Range(e.yoperations)
    \cup UNION {Range(e.init_engines[name].xoperations) \cup Range(e.init_engines[name].yoperations) :
                   name \in DOMAIN e.init_engines}
    \cup UNION {Range(e.engines[name].xoperations) \cup Range(e.engines[name].yoperations) :
                   name \in DOMAIN e.engines}

C36_FixedOrEngine ==
    Made => (DOMAIN emu.e.fixed) \cap (DOMAIN emu.e.engines) = {}

\* the engine has no fitted state: no point, no constants
Unfitted(engine) ==
    /\ engine.point = <<>>
    /\ \A op \in Range(engine.xoperations) \cup Range(engine.yoperations) :
          op.fitted = 0 /\ (op.name = "norm" => op.locals = <<>>)

\* C38: Emulator.fit leaves the engines that set_samples stored as they were
\* stored, without fitted state, whatever the calls made so far; and after a
\* fit the constants of the first NormOperation of each fitted engine are
\* those of the samples of its own output, also when the outputs were given
\* one engine specification or were fitted before.
C38_FitsFreshCopy ==
    Made =>
        /\ \A name \in DOMAIN emu.e.init_engines : Unfitted(emu.e.init_engines[name])
        /\ Unfitted(emu.e.input_engine)
        /\ JustFitted =>
              \A name \in DOMAIN emu.e.samples_operations :
                  (/\ emu.e.engines[name].err = NoErr
                   /\ emu.e.engines[name].yoperations # <<>>
                   /\ emu.e.engines[name].yoperations[1].name = "norm") =>
                      emu.e.engines[name].yoperations[1].locals =
                          <<[k \in {"v"} |-> emu.e.samples_operations[name].Y[name]]>>

\* two outputs with one engine specification were fitted, the second fit
\* following the first: their constants differ and the stored engine has none
C38_Witness ==
    /\ JustFitted
    /\ emu.calls = MaxCalls
    /\ {"y", "z"} \subseteq DOMAIN emu.e.engines
    /\ emu.e.engines["y"].yoperations # <<>>
    /\ emu.e.engines["y"].yoperations[1].name = "norm"
    /\ emu.e.engines["y"].yoperations[1].locals # emu.e.engines["z"].yoperations[1].locals
    /\ emu.e.init_engines["y"].yoperations[1].locals = <<>>

\* the emulator without calculator was given samples once and then fitted
FittedOnFirstSamples ==
    /\ JustFitted
    /\ emu.calls = 2
    /\ emu.e.calculator = <<>>

\* the y-operation was skipped by that set_samples: it reads an output that
\* the samples do not hold
SkippedAtFit(op) == ~(op.keys \subseteq DOMAIN emu.e.fixed \cup DOMAIN SamplesY)

\* C39 as claimed: predict passes over a y-operation that set_samples
\* skipped: it returns, and no value it returns carries the forward step or
\* the inverse of that operation.
C39_SkippedAtPredictToo ==
    FittedOnFirstSamples =>
        \A i \in DOMAIN emu.e.yoperations :
            SkippedAtFit(emu.e.yoperations[i]) =>
                \A a \in 0..NRows - 1 :
                    /\ predict(emu.e, a).err = NoErr
                    /\ \A name \in DOMAIN predict(emu.e, a).out :
                          \A k \in DOMAIN predict(emu.e, a).out[name].ops :
                              predict(emu.e, a).out[name].ops[k].direct # emu.e.yoperations[i].direct

\* C40 as claimed: when the last call, a fit, failed because the samples of
\* an output are not finite, the emulator holds no engine that was not
\* fitted.
C40_NoUnfittedEngine ==
    (Made /\ ~emu.e.loaded /\ emu.err = "ValueError") =>
        \A name \in DOMAIN emu.e.engines : emu.e.engines[name].point # <<>>

\* ------------------------------------------------------- the ranks' claims
\* rank r waits in a broadcast that rank 0, which has ended, never reaches
Blocked(r) ==
    /\ r # 0
    /\ mpi.rank[r].at \in BcastSites
    /\ mpi.chan[r] = <<>>
    /\ Ended(mpi.rank[0])

\* rank r raised the ValueError of the finiteness check of fit
RaisedNotFinite(r) ==
    /\ mpi.rank[r].at = "raised"
    /\ mpi.rank[r].err = "ValueError"
    /\ mpi.rank[r].i >= 1

\* rank r is past the finiteness checks of output i
PassedChecks(r, i) ==
    \/ mpi.rank[r].i > i
    \/ mpi.rank[r].i = i /\ mpi.rank[r].at \in {"r554", "b569", "b644", "done"}

\* C22: Emulator.fit raises ValueError for an output exactly when X or Y of
\* that output is not finite on rank 0, and the verdict is broadcast before
\* any rank raises: a rank raises only for an output that is not finite, a
\* rank gets past the checks of an output only if it is finite, and once
\* rank 0 has raised the ValueError, or has finished, no rank waits in a
\* broadcast that rank 0 does not reach.
C22_VerdictBroadcast ==
    mpi.pc = "run" =>
        \A r \in Ranks :
            /\ RaisedNotFinite(r) => mpi.inp.finite[mpi.rank[r].i] # "ok"
            /\ \A i \in 1..mpi.inp.n : PassedChecks(r, i) => mpi.inp.finite[i] = "ok"
            /\ (RaisedNotFinite(0) \/ mpi.rank[0].at = "done") => ~Blocked(r)

\* every rank has raised the ValueError for the second output, whose Y is not
\* finite on rank 0
C22_Witness ==
    /\ mpi.pc = "run"
    /\ mpi.inp.n = 2
    /\ mpi.inp.finite[2] = "Y"
    /\ \A r \in Ranks : RaisedNotFinite(r) /\ mpi.rank[r].i = 2

IsPrefix(s, t) == Len(s) <= Len(t) /\ SubSeq(t, 1, Len(s)) = s

\* C23: with the samples on rank 0 only, every branch that depends on the
\* samples or on the calculator's outputs is decided by the value broadcast
\* from rank 0: the broadcasts a rank has gone through, and what it decided
\* at each, are those rank 0 went through and decided, in the same order, and
\* the value a rank waits for is the value of the broadcast it is in.
C23_SameBranches ==
    mpi.pc = "run" =>
        \A r \in Ranks \ {0} :
            /\ IsPrefix(mpi.rank[r].trace, mpi.rank[0].trace)
            /\ (mpi.rank[r].at \in BcastSites /\ mpi.chan[r] # <<>>)
                   => Head(mpi.chan[r]).site = mpi.rank[r].at

\* all ranks have fitted two outputs of samples given to rank 0, through the
\* same broadcasts
C23_Witness ==
    /\ mpi.pc = "run"
    /\ mpi.inp.samplesRoot
    /\ mpi.inp.n = 2
    /\ \A r \in Ranks : mpi.rank[r].at = "done" /\ mpi.rank[r].trace = mpi.rank[0].trace

\* C37 as claimed: when rank 0 has raised in a block that it alone runs, no
\* other rank waits in a broadcast for a value that rank 0 will not send.
C37_NoRankLeftWaiting ==
    (mpi.pc = "run" /\ mpi.rank[0].at = "raised" /\ mpi.rank[0].err = "Exception") =>
        \A r \in Ranks \ {0} : ~Blocked(r)

====
